---- MODULE Spec2Model ----
(***************************************************************************)
(* Temporal rule engine of the task/habit tracker: cadence matching,       *)
(* time-of-day resolution, timezone-correct instant conversion, window     *)
(* building and merging (my-app/src/lib/block-windows.ts), the day totals, *)
(* day stats and streaks of the dashboard with its side of the cadence     *)
(* matcher (my-app/src/lib/habit-dashboard.ts), and the cadence matcher of *)
(* the task overview (my-app/src/lib/storage.supabase.ts).                 *)
(*                                                                         *)
(* Representation:                                                         *)
(*   - an ISO calendar date "YYYY-MM-DD" is the tuple <<year, month, day>>;*)
(*     string comparison of the fixed-width form is the lexicographic      *)
(*     comparison of the tuple; an unset date is <<>>;                     *)
(*   - an instant (Date.getTime()) is counted in minutes since the epoch;  *)
(*   - a number[] | null that the code reads through `?? []` is a          *)
(*     sequence, null being <<>>;                                          *)
(*   - timesPerPeriod null is NoCount.                                     *)
(***************************************************************************)
EXTENDS Integers, Sequences, FiniteSets, TLC

VARIABLES
    pc,         \* position of the computation that the specification runs
    tgTask,     \* cadence matcher: the task under evaluation
    tgDate,     \* cadence matcher: the ISO date under evaluation
    tgBlock,    \* <<result>> of block-windows determineTargetForDate, <<>> before it ran
    tgHabit,    \* <<result>> of habit-dashboard determineTargetForDate, <<>> before it ran
    tgStorage,  \* <<result>> of storage.supabase determineTargetForDate, <<>> before it ran
    cvDate,     \* instant converter: dateIso
    cvMinutes,  \* instant converter: minutes (minute of day)
    cvZone,     \* instant converter: timeZone
    cvResult,   \* <<ZonedDate>> returned by convertMinutesToDate, <<>> before it ran
    bTasks,     \* window builder: tasks
    bOptions,   \* window builder: options
    bWindows,   \* buildBlockingWindows: windows, the candidates in push order
    bSorted,    \* mergeWindows: sorted
    bIdx,       \* mergeWindows: index in sorted of the next candidate of the loop
    bMerged,    \* mergeWindows: merged
    bOutput,    \* the payload list returned by buildBlockingWindows
    bStat,      \* <<DayStat>> of computeDayStat for tasks on the date, <<>> before it ran
    rsTimeRules,\* time-of-day resolver: task.timeRules
    rsOptions,  \* time-of-day resolver: the grace and duration options
    rsResult,   \* the {startMinutes, endMinutes} resolved for the rules, in order
    skStats,    \* streak: Object.entries(dayStats), the [date, stat] pairs as inserted
    skRef,      \* streak: referenceIso
    skResult,   \* <<StreakStats>> returned by computeStreakStats, <<>> before it ran
    dTasks,     \* dashboard: activeTasks
    dLogs,      \* dashboard: logRows, the rows {task_id, happened_at, qty}
    dZone,      \* dashboard: timeZone, the zone resolveTimeZone() returned
    dTotals,    \* dashboard: dayTotals, date -> (task id -> summed quantity)
    dStats,     \* dashboard: dayStats, date -> DayStat
    erTasks,    \* failure paths of the window builder: tasks
    erOptions,  \* failure paths of the window builder: options, dateIso as its characters
    erResult,   \* <<outcome>> of buildBlockingWindows (returned or threw), <<>> before it ran
    hRoute,     \* endpoint: the route that serves the request
    hRequest,   \* endpoint: the request (credentials and query parameters)
    hOptions,   \* endpoint: the values resolved from the query parameters
    hRows,      \* endpoint: taskRows
    hFailed,    \* endpoint: the store fetches that reported an error
    hResponse,  \* <<Response>> of GET, <<>> before it answered
    mZone,      \* fetchHabitDashboardMonth: timeZone
    mTaskFetch, \* fetchHabitDashboardMonth: state of the task_defs query
    mLogFetch,  \* fetchHabitDashboardMonth: state of the exec_logs query
    mRequests,  \* fetchHabitDashboardMonth: the queries sent to the store, in order
    mActive,    \* fetchHabitDashboardMonth: activeTasks
    mOutcome,   \* <<outcome>> of the call (resolved or rejected), <<>> while it is pending
    uNow,       \* userscript: Date.now()
    uConfig,    \* userscript: {apiBase, cacheTtlMs} read from the settings
    uCache,     \* userscript: the stored WINDOW_CACHE, <<>> for null
    uStale,     \* getBlockingWindows: staleCache, <<>> for null
    uLoadAt,    \* getBlockingWindows: now
    uLoadFetch, \* getBlockingWindows: its fetch ("none", "pending", "ok", "failed")
    uResult,    \* <<windowsResult>> of getBlockingWindows, <<>> before it returned
    refreshConfig,    \* <<>> for null
    refreshInFlight,
    lastRefreshAt,
    refreshTimerId,   \* the time at which the interval fires next, 0 for null
    uRequests,  \* the requests of triggerBackgroundRefresh that have not settled
    uFetchLog,  \* the last two calls of fetchWindowsFromApi: caller, reason, time
    uSettled    \* the outcome of the fetch that settled in the last step, "" otherwise

cadenceVars == <<tgTask, tgDate, tgBlock, tgHabit, tgStorage>>

convertVars == <<cvDate, cvMinutes, cvZone, cvResult>>

buildVars == <<bTasks, bOptions, bWindows, bSorted, bIdx, bMerged, bOutput, bStat>>

resolveVars == <<rsTimeRules, rsOptions, rsResult>>

streakVars == <<skStats, skRef, skResult>>

dashVars == <<dTasks, dLogs, dZone, dTotals, dStats>>

errVars == <<erTasks, erOptions, erResult>>

httpVars == <<hRoute, hRequest, hOptions, hRows, hFailed, hResponse>>

monthVars == <<mZone, mTaskFetch, mLogFetch, mRequests, mActive, mOutcome>>

pollVars == <<uNow, uConfig, uCache, uStale, uLoadAt, uLoadFetch, uResult, refreshConfig,
              refreshInFlight, lastRefreshAt, refreshTimerId, uRequests, uFetchLog, uSettled>>

vars == <<pc, cadenceVars, convertVars, buildVars, resolveVars, streakVars, dashVars,
          errVars, httpVars, monthVars, pollVars>>

\* the variables of a computation that the specification at hand does not run
IdleCadence ==
    /\ tgTask = <<>> /\ tgDate = <<>>
    /\ tgBlock = <<>> /\ tgHabit = <<>> /\ tgStorage = <<>>

IdleConvert == cvDate = <<>> /\ cvMinutes = 0 /\ cvZone = "" /\ cvResult = <<>>

IdleBuild ==
    /\ bTasks = <<>> /\ bOptions = <<>> /\ bWindows = <<>> /\ bSorted = <<>>
    /\ bIdx = 0 /\ bMerged = <<>> /\ bOutput = <<>> /\ bStat = <<>>

IdleResolve == rsTimeRules = <<>> /\ rsOptions = <<>> /\ rsResult = <<>>

IdleStreak == skStats = <<>> /\ skRef = <<>> /\ skResult = <<>>

IdleDash ==
    dTasks = <<>> /\ dLogs = <<>> /\ dZone = "" /\ dTotals = <<>> /\ dStats = <<>>

IdleErr == erTasks = <<>> /\ erOptions = <<>> /\ erResult = <<>>

IdleHttp ==
    /\ hRoute = "" /\ hRequest = <<>> /\ hOptions = <<>> /\ hRows = <<>>
    /\ hFailed = {} /\ hResponse = <<>>

IdleMonth ==
    /\ mZone = "" /\ mTaskFetch = "" /\ mLogFetch = "" /\ mRequests = <<>>
    /\ mActive = <<>> /\ mOutcome = <<>>

IdlePoll ==
    /\ uNow = 0 /\ uConfig = <<>> /\ uCache = <<>> /\ uStale = <<>> /\ uLoadAt = 0
    /\ uLoadFetch = "" /\ uResult = <<>> /\ refreshConfig = <<>> /\ refreshInFlight = FALSE
    /\ lastRefreshAt = 0 /\ refreshTimerId = 0 /\ uRequests = <<>> /\ uFetchLog = <<>>
    /\ uSettled = ""

-----------------------------------------------------------------------------
(* Values *)

\* timesPerPeriod: number | null -- the null value
NoCount == -1

MINUTES_IN_DAY == 24 * 60

DEFAULT_TIMEZONE == "Asia/Tokyo"

-----------------------------------------------------------------------------
(* Calendar arithmetic of the platform (Date.UTC, getUTCDay) *)

\* days from 1970-01-01 to the civil date y-m-d (proleptic Gregorian)
DaysFromCivil(y, m, d) ==
    LET yy  == IF m <= 2 THEN y - 1 ELSE y
        era == yy \div 400
        yoe == yy - era * 400
        mp  == IF m > 2 THEN m - 3 ELSE m + 9
        doy == (153 * mp + 2) \div 5 + d - 1
        doe == yoe * 365 + yoe \div 4 - yoe \div 100 + doy
    IN  era * 146097 + doe - 719468

\* Date.UTC(year, month - 1, day, 0, 0, 0, 0), in minutes
DateUTC(y, m, d) == DaysFromCivil(y, m, d) * MINUTES_IN_DAY

parseIsoDateParts(iso) == [year |-> iso[1], month |-> iso[2], day |-> iso[3]]

\* new Date(Date.UTC(year, month - 1, day)).getUTCDay(): 0 = Sunday .. 6 = Saturday
isoDayOfWeek(iso) ==
    LET p == parseIsoDateParts(iso)
    IN  (DaysFromCivil(p.year, p.month, p.day) + 4) % 7

\* a < b on ISO date strings
IsoLess(a, b) ==
    \/ a[1] < b[1]
    \/ a[1] = b[1] /\ a[2] < b[2]
    \/ a[1] = b[1] /\ a[2] = b[2] /\ a[3] < b[3]

\* Array.prototype.includes
Includes(arr, x) == \E i \in DOMAIN arr : arr[i] = x

-----------------------------------------------------------------------------
(* Cadence matcher, block-windows.ts *)

\* variant: the end date is not looked at
taskActiveOnDateNoEnd(task, isoDate) ==
    IF ~task.active THEN FALSE
    ELSE IF task.startDate # <<>> /\ IsoLess(isoDate, task.startDate) THEN FALSE
    ELSE TRUE

\* variant: the end date is treated as exclusive
taskActiveOnDateEndExclusive(task, isoDate) ==
    IF ~task.active THEN FALSE
    ELSE IF task.startDate # <<>> /\ IsoLess(isoDate, task.startDate) THEN FALSE
    ELSE IF task.endDate # <<>> /\ ~IsoLess(isoDate, task.endDate) THEN FALSE
    ELSE TRUE

taskActiveOnDate(task, isoDate) ==
    IF ~task.active THEN FALSE
    ELSE IF task.startDate # <<>> /\ IsoLess(isoDate, task.startDate) THEN FALSE
    ELSE IF task.endDate # <<>> /\ IsoLess(task.endDate, isoDate) THEN FALSE
    ELSE TRUE

\* variant: a monthly rule with an empty day set matches every day, like weekly
ruleMatchesDateMonthlyAny(rule, isoDate, dayOfWeek) ==
    CASE rule.cadence = "daily" -> TRUE
      [] rule.cadence = "weekly" ->
            IF Len(rule.daysOfWeek) = 0 THEN TRUE ELSE Includes(rule.daysOfWeek, dayOfWeek)
      [] rule.cadence = "monthly" ->
            IF Len(rule.daysOfWeek) = 0 THEN TRUE ELSE Includes(rule.daysOfWeek, isoDate[3])
      [] OTHER -> TRUE

ruleMatchesDate(rule, isoDate, dayOfWeek) ==
    CASE rule.cadence = "daily" -> TRUE
      [] rule.cadence = "weekly" ->
            LET days == rule.daysOfWeek
            IN  IF Len(days) = 0 THEN TRUE ELSE Includes(days, dayOfWeek)
      [] rule.cadence = "monthly" ->
            LET day  == parseIsoDateParts(isoDate).day
                days == rule.daysOfWeek
            IN  IF Len(days) = 0 THEN day = 1 ELSE Includes(days, day)
      [] OTHER -> TRUE

\* task.periodRules.find((rule) => rule.timezone)?.timezone || fallback
resolveTaskTimeZone(task, fallback) ==
    LET hits == {i \in DOMAIN task.periodRules : task.periodRules[i].timezone # ""}
    IN  IF hits = {} THEN fallback
        ELSE task.periodRules[CHOOSE i \in hits : \A j \in hits : i <= j].timezone

createDefaultDailyRule(task) ==
    [cadence |-> "daily", timesPerPeriod |-> 1, daysOfWeek |-> <<>>,
     timezone |-> resolveTaskTimeZone(task, "UTC")]

\* variant: an unset timesPerPeriod counts as 0 instead of 1
ruleContributionNullZero(rule, isoDate, dayOfWeek) ==
    IF ruleMatchesDate(rule, isoDate, dayOfWeek)
    THEN (IF rule.timesPerPeriod = NoCount THEN 0 ELSE rule.timesPerPeriod)
    ELSE 0

\* the body of the for loop of determineTargetForDate: what rule adds to total
ruleContribution(rule, isoDate, dayOfWeek) ==
    IF ruleMatchesDate(rule, isoDate, dayOfWeek)
    THEN (IF rule.timesPerPeriod = NoCount THEN 1 ELSE rule.timesPerPeriod)
    ELSE 0

\* the for loop of determineTargetForDate from rule i on, total so far
RECURSIVE targetLoop(_, _, _, _, _)
targetLoop(rules, isoDate, dayOfWeek, i, total) ==
    IF i > Len(rules) THEN total
    ELSE targetLoop(rules, isoDate, dayOfWeek, i + 1,
                    total + ruleContribution(rules[i], isoDate, dayOfWeek))

\* variant: a task that is not active on the date yields the sentinel -1
determineTargetForDateSentinel(task, isoDate, dayOfWeek) ==
    IF ~taskActiveOnDate(task, isoDate) THEN 0 - 1
    ELSE LET rules == IF Len(task.periodRules) # 0 THEN task.periodRules
                      ELSE <<createDefaultDailyRule(task)>>
         IN  targetLoop(rules, isoDate, dayOfWeek, 1, 0)

determineTargetForDate(task, isoDate, dayOfWeek) ==
    IF ~taskActiveOnDate(task, isoDate) THEN 0
    ELSE LET rules == IF Len(task.periodRules) # 0 THEN task.periodRules
                      ELSE <<createDefaultDailyRule(task)>>
         IN  targetLoop(rules, isoDate, dayOfWeek, 1, 0)

-----------------------------------------------------------------------------
(* Cadence matcher and day stat, habit-dashboard.ts *)

habitTaskActiveOnDate(task, isoDate) ==
    IF ~task.active THEN FALSE
    ELSE IF task.startDate # <<>> /\ IsoLess(isoDate, task.startDate) THEN FALSE
    ELSE IF task.endDate # <<>> /\ IsoLess(task.endDate, isoDate) THEN FALSE
    ELSE TRUE

habitRuleMatchesDate(rule, isoDate, dayOfWeek) ==
    CASE rule.cadence = "daily" -> TRUE
      [] rule.cadence = "weekly" ->
            LET candidates == rule.daysOfWeek
            IN  IF Len(candidates) = 0 THEN TRUE ELSE Includes(candidates, dayOfWeek)
      [] rule.cadence = "monthly" ->
            LET day  == isoDate[3]
                days == rule.daysOfWeek
            IN  IF Len(days) = 0 THEN day = 1 ELSE Includes(days, day)
      [] OTHER -> FALSE

habitRuleContribution(rule, isoDate, dayOfWeek) ==
    IF habitRuleMatchesDate(rule, isoDate, dayOfWeek)
    THEN (IF rule.timesPerPeriod = NoCount THEN 1 ELSE rule.timesPerPeriod)
    ELSE 0

RECURSIVE habitTargetLoop(_, _, _, _, _)
habitTargetLoop(rules, isoDate, dayOfWeek, i, total) ==
    IF i > Len(rules) THEN total
    ELSE habitTargetLoop(rules, isoDate, dayOfWeek, i + 1,
                         total + habitRuleContribution(rules[i], isoDate, dayOfWeek))

habitDetermineTargetForDate(task, isoDate, dayOfWeek) ==
    IF ~habitTaskActiveOnDate(task, isoDate) THEN 0
    ELSE LET rules == IF Len(task.periodRules) # 0 THEN task.periodRules
                      ELSE <<[cadence |-> "daily", timesPerPeriod |-> 1,
                              daysOfWeek |-> <<>>, timezone |-> DEFAULT_TIMEZONE]>>
         IN  habitTargetLoop(rules, isoDate, dayOfWeek, 1, 0)

\* variant: a task without log on the date counts as logged once
FinishedDefaultOne(totals, id) == IF id \in DOMAIN totals THEN totals[id] ELSE 1

\* dayTotals.get(isoDate)?.get(task.id) ?? 0, totals being the map of that date
Finished(totals, id) == IF id \in DOMAIN totals THEN totals[id] ELSE 0

\* the for loop of computeDayStat from task i on
RECURSIVE dayStatLoop(_, _, _, _, _, _, _)
dayStatLoop(isoDate, taskList, totals, dayOfWeek, i, required, completedTasks) ==
    IF i > Len(taskList)
    THEN [required |-> required, completedTasks |-> completedTasks,
          done |-> IF required = 0 THEN TRUE ELSE completedTasks = required]
    ELSE LET task   == taskList[i]
             target == habitDetermineTargetForDate(task, isoDate, dayOfWeek)
         IN  IF target <= 0
             THEN dayStatLoop(isoDate, taskList, totals, dayOfWeek, i + 1,
                              required, completedTasks)
             ELSE dayStatLoop(isoDate, taskList, totals, dayOfWeek, i + 1,
                              required + 1,
                              IF Finished(totals, task.id) >= target
                              THEN completedTasks + 1 ELSE completedTasks)

computeDayStat(isoDate, taskList, totals) ==
    dayStatLoop(isoDate, taskList, totals, isoDayOfWeek(isoDate), 1, 0, 0)

-----------------------------------------------------------------------------
(* Cadence matcher of the task overview, storage.supabase.ts *)

storageTaskActiveOnDate(task, isoDate) ==
    IF ~task.active THEN FALSE
    ELSE IF task.startDate # <<>> /\ IsoLess(isoDate, task.startDate) THEN FALSE
    ELSE IF task.endDate # <<>> /\ IsoLess(task.endDate, isoDate) THEN FALSE
    ELSE TRUE

storageRuleMatchesDate(rule, isoDate, dayOfWeek) ==
    CASE rule.cadence = "daily" -> TRUE
      [] rule.cadence = "weekly" ->
            LET candidates == rule.daysOfWeek
            IN  IF Len(candidates) = 0 THEN TRUE ELSE Includes(candidates, dayOfWeek)
      [] rule.cadence = "monthly" ->
            LET day  == parseIsoDateParts(isoDate).day
                days == rule.daysOfWeek
            IN  IF Len(days) = 0 THEN day = 1 ELSE Includes(days, day)
      [] OTHER -> FALSE

\* the for loop of determineTargetForDate from rule i on, total so far
RECURSIVE storageTargetLoop(_, _, _, _, _)
storageTargetLoop(rules, isoDate, dayOfWeek, i, total) ==
    IF i > Len(rules) THEN total
    ELSE storageTargetLoop(rules, isoDate, dayOfWeek, i + 1,
            IF storageRuleMatchesDate(rules[i], isoDate, dayOfWeek)
            THEN total + (IF rules[i].timesPerPeriod = NoCount THEN 1
                          ELSE rules[i].timesPerPeriod)
            ELSE total)

storageDetermineTargetForDate(task, isoDate, dayOfWeek) ==
    IF ~storageTaskActiveOnDate(task, isoDate) THEN 0
    ELSE LET rules == IF Len(task.periodRules) # 0 THEN task.periodRules
                      ELSE <<[cadence |-> "daily", timesPerPeriod |-> 1,
                              daysOfWeek |-> <<>>, timezone |-> DEFAULT_TIMEZONE]>>
         IN  storageTargetLoop(rules, isoDate, dayOfWeek, 1, 0)

-----------------------------------------------------------------------------
(* Inputs of the cadence matcher *)

MaxRules == 2

Rule(c, t, d) == [cadence |-> c, timesPerPeriod |-> t, daysOfWeek |-> d,
                  timezone |-> DEFAULT_TIMEZONE]

RulePool ==
    { Rule("daily", NoCount, <<>>), Rule("daily", 0, <<>>), Rule("daily", 2, <<>>),
      Rule("weekly", NoCount, <<>>), Rule("weekly", 1, <<1>>), Rule("weekly", 2, <<1, 3>>),
      Rule("monthly", 1, <<>>), Rule("monthly", 2, <<10>>), Rule("monthly", NoCount, <<1, 10>>),
      Rule("interval", NoCount, <<>>), Rule("interval", 3, <<1>>) }

RuleLists == UNION { [1..n -> RulePool] : n \in 0..MaxRules }

CadenceDates ==
    { <<2024, 5, 31>>, <<2024, 6, 1>>, <<2024, 6, 2>>, <<2024, 6, 9>>,
      <<2024, 6, 10>>, <<2024, 6, 11>>, <<2024, 6, 12>>, <<2024, 7, 1>> }

RangeDates == { <<>>, <<2024, 6, 1>>, <<2024, 6, 10>> }

\* TaskDefinition invariant: if both dates are set, endDate >= startDate
CadenceTasks ==
    { [id |-> "t", title |-> "t", active |-> a, startDate |-> s, endDate |-> e,
       periodRules |-> r, timeRules |-> <<>>, tags |-> <<>>] :
        a \in BOOLEAN, s \in RangeDates, e \in RangeDates, r \in RuleLists }
    \ { t \in [id : {"t"}, title : {"t"}, active : BOOLEAN, startDate : RangeDates,
                endDate : RangeDates, periodRules : RuleLists, timeRules : {<<>>},
                tags : {<<>>}] :
            t.startDate # <<>> /\ t.endDate # <<>> /\ IsoLess(t.endDate, t.startDate) }

-----------------------------------------------------------------------------
(* Specification of the cadence matcher: the three determineTargetForDate   *)
(* run on one task and one date.                                            *)

InitCadence ==
    /\ pc = "target"
    /\ tgTask \in CadenceTasks
    /\ tgDate \in CadenceDates
    /\ tgBlock = <<>>
    /\ tgHabit = <<>>
    /\ tgStorage = <<>>
    /\ IdleConvert
    /\ IdleBuild
    /\ IdleResolve
    /\ IdleStreak
    /\ IdleDash
    /\ IdleErr
    /\ IdleHttp
    /\ IdleMonth
    /\ IdlePoll

\* block-windows.ts: determineTargetForDate(task, dateIso, isoDayOfWeek(dateIso))
DetermineTargetBlock ==
    /\ pc = "target"
    /\ tgBlock = <<>>
    /\ tgBlock' = <<determineTargetForDate(tgTask, tgDate, isoDayOfWeek(tgDate))>>
    /\ UNCHANGED <<pc, tgTask, tgDate, tgHabit, tgStorage, convertVars, buildVars,
                   resolveVars, streakVars, dashVars, errVars, httpVars, monthVars,
                   pollVars>>

\* habit-dashboard.ts: determineTargetForDate(task, isoDate, isoDayOfWeek(isoDate))
DetermineTargetHabit ==
    /\ pc = "target"
    /\ tgHabit = <<>>
    /\ tgHabit' = <<habitDetermineTargetForDate(tgTask, tgDate, isoDayOfWeek(tgDate))>>
    /\ UNCHANGED <<pc, tgTask, tgDate, tgBlock, tgStorage, convertVars, buildVars,
                   resolveVars, streakVars, dashVars, errVars, httpVars, monthVars,
                   pollVars>>

\* storage.supabase.ts: determineTargetForDate(task, dateIso, dayOfWeek), dayOfWeek
\* being isoDayOfWeek(dateIso)
DetermineTargetStorage ==
    /\ pc = "target"
    /\ tgStorage = <<>>
    /\ tgStorage' = <<storageDetermineTargetForDate(tgTask, tgDate, isoDayOfWeek(tgDate))>>
    /\ UNCHANGED <<pc, tgTask, tgDate, tgBlock, tgHabit, convertVars, buildVars, resolveVars,
                   streakVars, dashVars, errVars, httpVars, monthVars, pollVars>>

NextCadence == DetermineTargetBlock \/ DetermineTargetHabit \/ DetermineTargetStorage

SpecCadence == InitCadence /\ [][NextCadence]_vars

-----------------------------------------------------------------------------
(* The platform's zone database (Intl.DateTimeFormat with timeZone), for   *)
(* the year 2024: the UTC offset in minutes that a zone has at an instant. *)

ZoneNames == { "UTC", "Asia/Tokyo", "Asia/Kolkata", "America/New_York",
               "America/Havana", "Europe/Berlin", "Australia/Lord_Howe" }

\* instant of the UTC wall-clock time y-m-d h:mi
UtcInstant(y, m, d, h, mi) == DateUTC(y, m, d) + h * 60 + mi

\* a zone that observes daylight saving: offset std outside [from, to), dst inside
Seasonal(utc, from, to, std, dst) == IF utc >= from /\ utc < to THEN dst ELSE std

ZoneOffset(timeZone, utc) ==
    CASE timeZone = "UTC" -> 0
      [] timeZone = "Asia/Tokyo" -> 540
      [] timeZone = "Asia/Kolkata" -> 330
      [] timeZone = "America/New_York" ->
            Seasonal(utc, UtcInstant(2024, 3, 10, 7, 0), UtcInstant(2024, 11, 3, 6, 0),
                     0 - 300, 0 - 240)
      [] timeZone = "America/Havana" ->
            Seasonal(utc, UtcInstant(2024, 3, 10, 5, 0), UtcInstant(2024, 11, 3, 5, 0),
                     0 - 300, 0 - 240)
      [] timeZone = "Europe/Berlin" ->
            Seasonal(utc, UtcInstant(2024, 3, 31, 1, 0), UtcInstant(2024, 10, 27, 1, 0),
                     60, 120)
      [] timeZone = "Australia/Lord_Howe" ->
            Seasonal(utc, UtcInstant(2024, 4, 6, 15, 0), UtcInstant(2024, 10, 5, 15, 30),
                     660, 630)

\* the offsets a zone takes during the year
ZoneOffsets(timeZone) ==
    { ZoneOffset(timeZone, UtcInstant(2024, 1, 15, 0, 0)),
      ZoneOffset(timeZone, UtcInstant(2024, 7, 15, 0, 0)) }

Abs(n) == IF n < 0 THEN 0 - n ELSE n

\* the timeZoneName part under timeZoneName: 'shortOffset': "GMT", "GMT+9",
\* "GMT-5", "GMT+5:30"; <<>> stands for the bare "GMT", minutes -1 for no ":mm"
ShortOffset(offset) ==
    IF offset = 0 THEN <<>>
    ELSE <<[sign    |-> IF offset < 0 THEN "-" ELSE "+",
            hours   |-> Abs(offset) \div 60,
            minutes |-> IF Abs(offset) % 60 = 0 THEN 0 - 1 ELSE Abs(offset) % 60]>>

-----------------------------------------------------------------------------
(* Timezone-correct instant converter, block-windows.ts *)

\* value.match(/([+-])(\d{1,2})(?::?(\d{2}))?$/)
parseOffsetMinutes(value) ==
    IF value = <<>> THEN 0
    ELSE LET match   == value[1]
             sign    == IF match.sign = "-" THEN 0 - 1 ELSE 1
             hours   == match.hours
             minutes == IF match.minutes # 0 - 1 THEN match.minutes ELSE 0
         IN  sign * (hours * 60 + minutes)

\* the year..second parts are the zone's wall clock at the instant, kept as the
\* minute count `local` of that wall clock (how the formatter writes the hour of
\* local midnight, "00" or "24", is not part of the model); offsetMinutes is
\* parsed from the timeZoneName part
extractParts(date, timeZone) ==
    [local         |-> date + ZoneOffset(timeZone, date),
     offsetMinutes |-> parseOffsetMinutes(ShortOffset(ZoneOffset(timeZone, date)))]

\* `${sign}${pad(hours)}:${pad(minutes)}`
formatOffset(offsetMinutes) ==
    LET absolute == Abs(offsetMinutes)
    IN  [sign    |-> IF offsetMinutes >= 0 THEN "+" ELSE "-",
         hours   |-> absolute \div 60,
         minutes |-> absolute % 60]

\* `${year}-${month}-${day}T${hour}:${minute}:${second}${formatOffset(...)}`
IsoOf(parts) == [local |-> parts.local, offset |-> formatOffset(parts.offsetMinutes)]

\* variant: the offset of the provisional instant is final (no second pass)
convertMinutesToDateOnePass(dateIso, minutes, timeZone) ==
    LET p            == parseIsoDateParts(dateIso)
        guess        == DateUTC(p.year, p.month, p.day) + minutes
        initialParts == extractParts(guess, timeZone)
        adjustedUtc  == guess - initialParts.offsetMinutes
        finalParts   == extractParts(adjustedUtc, timeZone)
    IN  [date |-> adjustedUtc, iso |-> IsoOf(finalParts),
         offsetMinutes |-> finalParts.offsetMinutes]

convertMinutesToDate(dateIso, minutes, timeZone) ==
    LET p            == parseIsoDateParts(dateIso)
        base         == DateUTC(p.year, p.month, p.day)
        guess        == base + minutes
        initialParts == extractParts(guess, timeZone)
        adjustedUtc1 == guess - initialParts.offsetMinutes
        finalParts1  == extractParts(adjustedUtc1, timeZone)
        again        == finalParts1.offsetMinutes # initialParts.offsetMinutes
        adjustedUtc  == IF again THEN guess - finalParts1.offsetMinutes ELSE adjustedUtc1
        finalParts   == IF again THEN extractParts(adjustedUtc, timeZone) ELSE finalParts1
    IN  [date |-> adjustedUtc, iso |-> IsoOf(finalParts),
         offsetMinutes |-> finalParts.offsetMinutes]

-----------------------------------------------------------------------------
(* Specification of the instant converter: one call of convertMinutesToDate *)

\* dates on, before and after the 2024 transitions of the zones, and a plain one
ConvertDates ==
    { <<2024, 3, 9>>, <<2024, 3, 10>>, <<2024, 3, 11>>, <<2024, 3, 30>>, <<2024, 3, 31>>,
      <<2024, 4, 6>>, <<2024, 4, 7>>, <<2024, 6, 10>>, <<2024, 10, 5>>, <<2024, 10, 6>>,
      <<2024, 10, 26>>, <<2024, 10, 27>>, <<2024, 11, 2>>, <<2024, 11, 3>> }

InitConvert ==
    /\ pc = "convert"
    /\ cvDate \in ConvertDates
    /\ cvMinutes \in 0..MINUTES_IN_DAY
    /\ cvZone \in ZoneNames
    /\ cvResult = <<>>
    /\ IdleCadence
    /\ IdleBuild
    /\ IdleResolve
    /\ IdleStreak
    /\ IdleDash
    /\ IdleErr
    /\ IdleHttp
    /\ IdleMonth
    /\ IdlePoll

ConvertMinutesToDate ==
    /\ pc = "convert"
    /\ cvResult = <<>>
    /\ cvResult' = <<convertMinutesToDate(cvDate, cvMinutes, cvZone)>>
    /\ pc' = "converted"
    /\ UNCHANGED <<cvDate, cvMinutes, cvZone, cadenceVars, buildVars, resolveVars, streakVars,
                   dashVars, errVars, httpVars, monthVars, pollVars>>

NextConvert == ConvertMinutesToDate

SpecConvert == InitConvert /\ [][NextConvert]_vars

-----------------------------------------------------------------------------
(* Strings: a string is the sequence of its characters; null and "" are <<>> *)

Digits == <<"0", "1", "2", "3", "4", "5", "6", "7", "8", "9">>

IsDigit(c) == \E i \in DOMAIN Digits : Digits[i] = c

DigitValue(c) == (CHOOSE i \in DOMAIN Digits : Digits[i] = c) - 1

Upper == <<"A", "B", "C", "D", "E", "F", "G", "H", "I", "J", "K", "L", "M",
           "N", "O", "P", "Q", "R", "S", "T", "U", "V", "W", "X", "Y", "Z">>

Lower == <<"a", "b", "c", "d", "e", "f", "g", "h", "i", "j", "k", "l", "m",
           "n", "o", "p", "q", "r", "s", "t", "u", "v", "w", "x", "y", "z">>

\* String.prototype.toLowerCase
ToLowerCase(str) ==
    [i \in DOMAIN str |->
        IF \E k \in DOMAIN Upper : Upper[k] = str[i]
        THEN Lower[CHOOSE k \in DOMAIN Upper : Upper[k] = str[i]]
        ELSE str[i]]

\* String.prototype.split(':'): part under construction cur, parts found acc
RECURSIVE SplitColon(_, _, _, _)
SplitColon(str, i, cur, acc) ==
    IF i > Len(str) THEN Append(acc, cur)
    ELSE IF str[i] = ":" THEN SplitColon(str, i + 1, <<>>, Append(acc, cur))
    ELSE SplitColon(str, i + 1, Append(cur, str[i]), acc)

\* the digits Number.parseInt(_, 10) reads from position i on, value so far n
RECURSIVE ReadDigits(_, _, _)
ReadDigits(str, i, n) ==
    IF i > Len(str) \/ ~IsDigit(str[i]) THEN n
    ELSE ReadDigits(str, i + 1, n * 10 + DigitValue(str[i]))

\* Number.parseInt(str, 10): <<n>>, or <<>> for NaN
ParseInt(str) ==
    LET signed == Len(str) > 0 /\ str[1] \in {"-", "+"}
        first  == IF signed THEN 2 ELSE 1
    IN  IF first > Len(str) \/ ~IsDigit(str[first]) THEN <<>>
        ELSE <<(IF signed /\ str[1] = "-" THEN 0 - 1 ELSE 1) * ReadDigits(str, first, 0)>>

-----------------------------------------------------------------------------
(* Time-of-day resolver, block-windows.ts *)

clampMinute(value) ==
    IF value < 0 THEN 0
    ELSE IF value > MINUTES_IN_DAY THEN MINUTES_IN_DAY
    ELSE value

toMinutes(value) ==
    IF value = <<>> THEN 0
    ELSE LET parts      == SplitColon(value, 1, <<>>, <<>>)
             hourPart   == parts[1]
             minutePart == IF Len(parts) >= 2 THEN parts[2] ELSE <<"0">>
             hours      == ParseInt(hourPart)
             minutes    == ParseInt(minutePart)
         IN  IF hours = <<>> \/ minutes = <<>> THEN 0
             ELSE hours[1] * 60 + minutes[1]

\* variant: without end time the end is counted from the graced start
resolveMinutesForRuleGracedStart(rule, options) ==
    IF rule.anytime \/ rule.startTime = <<>>
    THEN [startMinutes |-> clampMinute(0 - options.preGraceMinutes),
          endMinutes   |-> clampMinute(MINUTES_IN_DAY + options.postGraceMinutes)]
    ELSE LET startMinutes == clampMinute(toMinutes(rule.startTime) - options.preGraceMinutes)
         IN  [startMinutes |-> startMinutes,
              endMinutes   |->
                  IF rule.endTime # <<>>
                  THEN clampMinute(toMinutes(rule.endTime) + options.postGraceMinutes)
                  ELSE clampMinute(startMinutes + options.durationDefaultMinutes
                                   + options.postGraceMinutes)]

\* variant: the anytime interval is widened by the grace without clamping
resolveMinutesForRuleUnclampedAnytime(rule, options) ==
    IF rule.anytime \/ rule.startTime = <<>>
    THEN [startMinutes |-> 0 - options.preGraceMinutes,
          endMinutes   |-> MINUTES_IN_DAY + options.postGraceMinutes]
    ELSE [startMinutes |-> clampMinute(toMinutes(rule.startTime) - options.preGraceMinutes),
          endMinutes   |->
              IF rule.endTime # <<>>
              THEN clampMinute(toMinutes(rule.endTime) + options.postGraceMinutes)
              ELSE clampMinute(toMinutes(rule.startTime) + options.durationDefaultMinutes
                               + options.postGraceMinutes)]

resolveMinutesForRule(rule, options) ==
    IF rule.anytime \/ rule.startTime = <<>>
    THEN [startMinutes |-> clampMinute(0 - options.preGraceMinutes),
          endMinutes   |-> clampMinute(MINUTES_IN_DAY + options.postGraceMinutes)]
    ELSE [startMinutes |-> clampMinute(toMinutes(rule.startTime) - options.preGraceMinutes),
          endMinutes   |->
              IF rule.endTime # <<>>
              THEN clampMinute(toMinutes(rule.endTime) + options.postGraceMinutes)
              ELSE clampMinute(toMinutes(rule.startTime) + options.durationDefaultMinutes
                               + options.postGraceMinutes)]

-----------------------------------------------------------------------------
(* Window builder and merger, block-windows.ts *)

DEFAULT_FOCUS_TAGS == << <<"f", "o", "c", "u", "s">> >>

\* variant: the tag is lower-cased and a leading # is kept
sanitizeTagKeepHash(tag) == ToLowerCase(tag)

sanitizeTag(tag) ==
    LET lowered == ToLowerCase(tag)
    IN  IF Len(lowered) > 0 /\ lowered[1] = "#" THEN Tail(lowered) ELSE lowered

\* `タスク: ${task.title}${tagSuffix}`: the title and the tags it is built from
buildReason(task) == [title |-> task.title, tags |-> task.tags]

\* the implicit anytime rule of a task without time rules
AnytimeRule == [startTime |-> <<>>, endTime |-> <<>>, anytime |-> TRUE]

\* variant: only an interval that ends before it starts is skipped
ruleWindowsKeepEmpty(task, rule, options, taskTimeZone, severity) ==
    LET m         == resolveMinutesForRule(rule, options)
        startDate == convertMinutesToDate(options.dateIso, m.startMinutes, taskTimeZone)
        endDate   == convertMinutesToDate(options.dateIso, m.endMinutes, taskTimeZone)
    IN  IF m.endMinutes < m.startMinutes THEN <<>>
        ELSE IF endDate.date < startDate.date THEN <<>>
        ELSE <<[startUtc    |-> startDate.date,
                endUtc      |-> endDate.date,
                startIso    |-> startDate.iso,
                endIso      |-> endDate.iso,
                redirectUrl |-> options.redirectUrlDefault,
                severity    |-> severity,
                reasons     |-> <<buildReason(task)>>,
                timeZone    |-> taskTimeZone]>>

\* the body of the loop over a task's time rules: the windows one rule pushes
ruleWindows(task, rule, options, taskTimeZone, severity) ==
    LET m         == resolveMinutesForRule(rule, options)
        startDate == convertMinutesToDate(options.dateIso, m.startMinutes, taskTimeZone)
        endDate   == convertMinutesToDate(options.dateIso, m.endMinutes, taskTimeZone)
    IN  IF m.endMinutes <= m.startMinutes THEN <<>>
        ELSE IF endDate.date <= startDate.date THEN <<>>
        ELSE <<[startUtc    |-> startDate.date,
                endUtc      |-> endDate.date,
                startIso    |-> startDate.iso,
                endIso      |-> endDate.iso,
                redirectUrl |-> options.redirectUrlDefault,
                severity    |-> severity,
                reasons     |-> <<buildReason(task)>>,
                timeZone    |-> taskTimeZone]>>

RECURSIVE rulesLoop(_, _, _, _, _, _)
rulesLoop(task, rules, options, taskTimeZone, severity, k) ==
    IF k > Len(rules) THEN <<>>
    ELSE ruleWindows(task, rules[k], options, taskTimeZone, severity)
         \o rulesLoop(task, rules, options, taskTimeZone, severity, k + 1)

\* the body of the loop over the tasks: the windows one task pushes
taskWindows(task, options) ==
    LET dayOfWeek   == isoDayOfWeek(options.dateIso)
        focusNames  == IF Len(options.focusTagNames) # 0
                       THEN [i \in DOMAIN options.focusTagNames |->
                                sanitizeTag(options.focusTagNames[i])]
                       ELSE DEFAULT_FOCUS_TAGS
        hasFocusTag == \E i \in DOMAIN task.tags : Includes(focusNames, sanitizeTag(task.tags[i]))
        rules       == IF Len(task.timeRules) # 0 THEN task.timeRules ELSE <<AnytimeRule>>
    IN  IF ~taskActiveOnDate(task, options.dateIso) THEN <<>>
        ELSE IF determineTargetForDate(task, options.dateIso, dayOfWeek) <= 0 THEN <<>>
        ELSE IF options.focusOnly /\ ~hasFocusTag THEN <<>>
        ELSE rulesLoop(task, rules, options, resolveTaskTimeZone(task, options.timeZone),
                       IF hasFocusTag THEN "strict" ELSE "lenient", 1)

\* the loop over the tasks: the candidate windows in the order they are pushed
RECURSIVE collectWindows(_, _, _)
collectWindows(taskList, options, i) ==
    IF i > Len(taskList) THEN <<>>
    ELSE taskWindows(taskList[i], options) \o collectWindows(taskList, options, i + 1)

\* Array.prototype.sort((a, b) => a.startUtc - b.startUtc), which is stable:
\* insert w behind the elements of the sorted list that start no later
RECURSIVE insertByStart(_, _)
insertByStart(sorted, w) ==
    IF sorted = <<>> THEN <<w>>
    ELSE IF sorted[Len(sorted)].startUtc <= w.startUtc THEN Append(sorted, w)
    ELSE Append(insertByStart(SubSeq(sorted, 1, Len(sorted) - 1), w), sorted[Len(sorted)])

\* variant: the candidates are left in push order
sortByStartPushOrder(windows, n) == SubSeq(windows, 1, n)

RECURSIVE sortByStart(_, _)
sortByStart(windows, n) ==
    IF n = 0 THEN <<>> ELSE insertByStart(sortByStart(windows, n - 1), windows[n])

Max(a, b) == IF a >= b THEN a ELSE b

\* Set.prototype.add over the reasons of window, in insertion order
RECURSIVE addReasons(_, _, _)
addReasons(reasons, more, k) ==
    IF k > Len(more) THEN reasons
    ELSE addReasons(IF Includes(reasons, more[k]) THEN reasons ELSE Append(reasons, more[k]),
                    more, k + 1)

\* variant: a candidate that only touches the running window starts a new one
mergeStepStrict(merged, window) ==
    LET n    == Len(merged)
        last == merged[n]
    IN  IF /\ n > 0
           /\ last.timeZone = window.timeZone
           /\ last.redirectUrl = window.redirectUrl
           /\ last.severity = window.severity
           /\ window.startUtc < last.endUtc
        THEN LET endUtc == Max(last.endUtc, window.endUtc)
             IN  [merged EXCEPT ![n] =
                    [last EXCEPT !.endUtc  = endUtc,
                                 !.endIso  = IsoOf(extractParts(endUtc, last.timeZone)),
                                 !.reasons = addReasons(last.reasons, window.reasons, 1)]]
        ELSE Append(merged, window)

\* variant: the windows are merged whenever they overlap, whatever their policy
mergeStepAnyPolicy(merged, window) ==
    LET n    == Len(merged)
        last == merged[n]
    IN  IF n > 0 /\ window.startUtc <= last.endUtc
        THEN LET endUtc == Max(last.endUtc, window.endUtc)
             IN  [merged EXCEPT ![n] =
                    [last EXCEPT !.endUtc  = endUtc,
                                 !.endIso  = IsoOf(extractParts(endUtc, last.timeZone)),
                                 !.reasons = addReasons(last.reasons, window.reasons, 1)]]
        ELSE Append(merged, window)

\* variant: a candidate that joins the running window does not extend it
mergeStepKeepsEnd(merged, window) ==
    LET n    == Len(merged)
        last == merged[n]
    IN  IF /\ n > 0
           /\ last.timeZone = window.timeZone
           /\ last.redirectUrl = window.redirectUrl
           /\ last.severity = window.severity
           /\ window.startUtc <= last.endUtc
        THEN [merged EXCEPT ![n] =
                [last EXCEPT !.reasons = addReasons(last.reasons, window.reasons, 1)]]
        ELSE Append(merged, window)

\* the body of the loop of mergeWindows
mergeStep(merged, window) ==
    LET n    == Len(merged)
        last == merged[n]
    IN  IF /\ n > 0
           /\ last.timeZone = window.timeZone
           /\ last.redirectUrl = window.redirectUrl
           /\ last.severity = window.severity
           /\ window.startUtc <= last.endUtc
        THEN LET endUtc == Max(last.endUtc, window.endUtc)
             IN  [merged EXCEPT ![n] =
                    [last EXCEPT !.endUtc  = endUtc,
                                 !.endIso  = IsoOf(extractParts(endUtc, last.timeZone)),
                                 !.reasons = addReasons(last.reasons, window.reasons, 1)]]
        ELSE Append(merged, window)

RECURSIVE mergeLoop(_, _, _)
mergeLoop(sorted, k, merged) ==
    IF k > Len(sorted) THEN merged
    ELSE mergeLoop(sorted, k + 1, mergeStep(merged, sorted[k]))

mergeWindows(windows) == mergeLoop(sortByStart(windows, Len(windows)), 1, <<>>)

\* merged.map(...): reason is the reasons joined by " / ", kept as their list
toPayload(merged) ==
    [i \in DOMAIN merged |->
        [start_at |-> merged[i].startIso,
         end_at   |-> merged[i].endIso,
         reason   |-> merged[i].reasons,
         policy   |-> [mode |-> "blocklist", redirect_url |-> merged[i].redirectUrl,
                       severity |-> merged[i].severity]]]

\* the early return when no window was pushed, else the merged payload
payloadOf(windows) == IF Len(windows) = 0 THEN <<>> ELSE toPayload(mergeWindows(windows))

buildBlockingWindows(taskList, options) == payloadOf(collectWindows(taskList, options, 1))

-----------------------------------------------------------------------------
(* Inputs of the window builder *)

MaxTasks == 3

FocusTag == <<"f", "o", "c", "u", "s">>

HashFocusTag == <<"#", "F", "o", "c", "u", "s">>

WorkTag == <<"w", "o", "r", "k">>

\* "hh:mm" from its four digits
Clock(h1, h2, m1, m2) == <<h1, h2, ":", m1, m2>>

TimeRule(startTime, endTime) == [startTime |-> startTime, endTime |-> endTime, anytime |-> FALSE]

ZoneRule(c, t, d, tz) == [cadence |-> c, timesPerPeriod |-> t, daysOfWeek |-> d, timezone |-> tz]

Task(title, active, startDate, endDate, periodRules, timeRules, tags) ==
    [id |-> title, title |-> title, active |-> active, startDate |-> startDate,
     endDate |-> endDate, periodRules |-> periodRules, timeRules |-> timeRules, tags |-> tags]

\* focus task 09:00-10:00 in the default zone
TaskA == Task("A", TRUE, <<>>, <<>>, <<>>,
              <<TimeRule(Clock("0", "9", "0", "0"), Clock("1", "0", "0", "0"))>>, <<FocusTag>>)

\* focus task 09:55-11:00 in the default zone
TaskB == Task("B", TRUE, <<>>, <<>>, <<>>,
              <<TimeRule(Clock("0", "9", "5", "5"), Clock("1", "1", "0", "0"))>>, <<HashFocusTag>>)

\* task without focus tag, 09:30-10:30
TaskC == Task("C", TRUE, <<>>, <<>>, <<>>,
              <<TimeRule(Clock("0", "9", "3", "0"), Clock("1", "0", "3", "0"))>>, <<WorkTag>>)

\* focus task in zone UTC, 00:00-01:00 there, which is 09:00-10:00 in Asia/Tokyo
TaskD == Task("D", TRUE, <<>>, <<>>, <<ZoneRule("daily", 1, <<>>, "UTC")>>,
              <<TimeRule(Clock("0", "0", "0", "0"), Clock("0", "1", "0", "0"))>>, <<FocusTag>>)

\* focus task 09:00-09:30
TaskE == Task("E", TRUE, <<>>, <<>>, <<>>,
              <<TimeRule(Clock("0", "9", "0", "0"), Clock("0", "9", "3", "0"))>>, <<FocusTag>>)

\* focus task 10:00-10:30, touching the end of A
TaskF == Task("F", TRUE, <<>>, <<>>, <<>>,
              <<TimeRule(Clock("1", "0", "0", "0"), Clock("1", "0", "3", "0"))>>, <<FocusTag>>)

\* inactive focus task, twice a day, 13:00-14:00
TaskG == Task("G", FALSE, <<>>, <<>>, <<ZoneRule("daily", 2, <<>>, "")>>,
              <<TimeRule(Clock("1", "3", "0", "0"), Clock("1", "4", "0", "0"))>>, <<FocusTag>>)

\* focus task without time rule, Mondays and Tuesdays until 2024-06-10
TaskH == Task("H", TRUE, <<>>, <<2024, 6, 10>>, <<ZoneRule("weekly", NoCount, <<1, 2>>, "")>>,
              <<>>, <<FocusTag>>)

\* focus task from 2024-06-11 on with a zero-length rule, a rule without end
\* time (23:30, default duration) and a rule 23:00-23:45 that overlaps it
TaskJ == Task("J", TRUE, <<2024, 6, 11>>, <<>>, <<>>,
              <<TimeRule(Clock("1", "2", "0", "0"), Clock("1", "2", "0", "0")),
                TimeRule(Clock("2", "3", "3", "0"), <<>>),
                TimeRule(Clock("2", "3", "0", "0"), Clock("2", "3", "4", "5"))>>, <<FocusTag>>)

\* focus task of 2024-03-10 in zone America/New_York, where the clocks go from
\* 02:00 to 03:00 that day: a rule 01:50-02:10 that ends in the gap, a
\* zero-length rule and a rule 03:00-04:00
TaskK == Task("K", TRUE, <<2024, 3, 10>>, <<2024, 3, 10>>,
              <<ZoneRule("daily", 1, <<>>, "America/New_York")>>,
              <<TimeRule(Clock("0", "1", "5", "0"), Clock("0", "2", "1", "0")),
                TimeRule(Clock("1", "2", "0", "0"), Clock("1", "2", "0", "0")),
                TimeRule(Clock("0", "3", "0", "0"), Clock("0", "4", "0", "0"))>>, <<FocusTag>>)

TaskPool == {TaskA, TaskB, TaskC, TaskD, TaskE, TaskF, TaskG, TaskH, TaskJ, TaskK}

\* task rows have distinct ids
TaskLists ==
    UNION { { l \in [1..n -> TaskPool] : \A i, j \in 1..n : i # j => l[i] # l[j] } :
            n \in 0..MaxTasks }

\* a focus tag name as a caller may pass it
WorkFocusName == <<"#", "W", "o", "r", "k">>

Options(d, g, names, f) ==
    [dateIso |-> d, timeZone |-> "Asia/Tokyo", preGraceMinutes |-> g,
     postGraceMinutes |-> g, durationDefaultMinutes |-> 60,
     focusTagNames |-> names, focusOnly |-> f,
     redirectUrlDefault |-> "https://taskworks.example/safe"]

\* two days in June with and without grace, the day of the daylight-saving
\* change of America/New_York, and a call with its own focus tag names
BuildOptions ==
    { Options(d, g, DEFAULT_FOCUS_TAGS, f) :
        d \in {<<2024, 6, 10>>, <<2024, 6, 11>>}, g \in {0, 5}, f \in BOOLEAN }
    \cup { Options(<<2024, 3, 10>>, 0, DEFAULT_FOCUS_TAGS, TRUE) }
    \cup { Options(<<2024, 6, 10>>, 0, <<WorkFocusName>>, f) : f \in BOOLEAN }

\* the summed quantities logged on the date: none, or one per task
DayTotals(taskList) ==
    { <<>>, [id \in {taskList[i].id : i \in DOMAIN taskList} |-> 1] }

-----------------------------------------------------------------------------
(* Specification of the window builder: one call of buildBlockingWindows,   *)
(* with the loop of mergeWindows taken step by step, followed by the day    *)
(* stat of the same tasks on the same date.                                 *)

InitBuild ==
    /\ pc = "collect"
    /\ bTasks \in TaskLists
    /\ bOptions \in BuildOptions
    /\ bWindows = <<>>
    /\ bSorted = <<>>
    /\ bIdx = 0
    /\ bMerged = <<>>
    /\ bOutput = <<>>
    /\ bStat = <<>>
    /\ IdleCadence
    /\ IdleConvert
    /\ IdleResolve
    /\ IdleStreak
    /\ IdleDash
    /\ IdleErr
    /\ IdleHttp
    /\ IdleMonth
    /\ IdlePoll

\* the loop over the tasks, and the early return when no window was pushed
CollectWindows ==
    /\ pc = "collect"
    /\ bWindows' = collectWindows(bTasks, bOptions, 1)
    /\ pc' = IF Len(bWindows') = 0 THEN "done" ELSE "sort"
    /\ UNCHANGED <<bTasks, bOptions, bSorted, bIdx, bMerged, bOutput, bStat,
                   cadenceVars, convertVars, resolveVars, streakVars, dashVars,
                   errVars, httpVars, monthVars, pollVars>>

\* mergeWindows: sorted = [...windows].sort(...), merged = []
SortWindows ==
    /\ pc = "sort"
    /\ bSorted' = sortByStart(bWindows, Len(bWindows))
    /\ bMerged' = <<>>
    /\ bIdx' = 1
    /\ pc' = "merge"
    /\ UNCHANGED <<bTasks, bOptions, bWindows, bOutput, bStat, cadenceVars, convertVars,
                   resolveVars, streakVars, dashVars, errVars, httpVars, monthVars,
                   pollVars>>

\* mergeWindows: one iteration of the loop over sorted
MergeStep ==
    /\ pc = "merge"
    /\ bIdx <= Len(bSorted)
    /\ bMerged' = mergeStep(bMerged, bSorted[bIdx])
    /\ bIdx' = bIdx + 1
    /\ UNCHANGED <<pc, bTasks, bOptions, bWindows, bSorted, bOutput, bStat,
                   cadenceVars, convertVars, resolveVars, streakVars, dashVars,
                   errVars, httpVars, monthVars, pollVars>>

\* mergeWindows returns merged; buildBlockingWindows maps it to the payload
EmitPayload ==
    /\ pc = "merge"
    /\ bIdx > Len(bSorted)
    /\ bOutput' = toPayload(bMerged)
    /\ pc' = "done"
    /\ UNCHANGED <<bTasks, bOptions, bWindows, bSorted, bIdx, bMerged, bStat,
                   cadenceVars, convertVars, resolveVars, streakVars, dashVars,
                   errVars, httpVars, monthVars, pollVars>>

\* habit-dashboard.ts: computeDayStat(isoDate, tasks, dayTotals)
ComputeDayStat ==
    /\ pc = "done"
    /\ bStat = <<>>
    /\ \E totals \in DayTotals(bTasks) :
          bStat' = <<computeDayStat(bOptions.dateIso, bTasks, totals)>>
    /\ UNCHANGED <<pc, bTasks, bOptions, bWindows, bSorted, bIdx, bMerged, bOutput,
                   cadenceVars, convertVars, resolveVars, streakVars, dashVars,
                   errVars, httpVars, monthVars, pollVars>>

NextBuild == CollectWindows \/ SortWindows \/ MergeStep \/ EmitPayload \/ ComputeDayStat

SpecBuild == InitBuild /\ [][NextBuild]_vars

-----------------------------------------------------------------------------
(* Specification of the time-of-day resolver: the time rules of one task,   *)
(* or the implicit anytime rule, resolved as the loop of                    *)
(* buildBlockingWindows resolves them.                                      *)

\* task.timeRules.length ? task.timeRules : [{startTime: null, endTime: null, anytime: true}]
effectiveTimeRules(timeRules) == IF Len(timeRules) # 0 THEN timeRules ELSE <<AnytimeRule>>

\* resolveMinutesForRule(rule, {durationDefaultMinutes, preGraceMinutes,
\* postGraceMinutes}) for each rule of the loop
resolveEach(rules, options) ==
    [k \in DOMAIN rules |-> resolveMinutesForRule(rules[k], options)]

\* time columns hold "hh:mm:ss"
ClockSeconds(h1, h2, m1, m2) == Clock(h1, h2, m1, m2) \o <<":", "0", "0">>

StartTimes ==
    { <<>>, Clock("0", "0", "0", "0"), Clock("0", "0", "0", "3"), Clock("0", "9", "0", "0"),
      ClockSeconds("0", "9", "0", "0"), Clock("2", "3", "3", "0"), Clock("2", "3", "5", "8") }

EndTimes ==
    { <<>>, Clock("0", "0", "0", "2"), Clock("0", "9", "0", "0"), Clock("1", "0", "0", "0"),
      ClockSeconds("1", "0", "0", "0"), Clock("2", "3", "5", "8") }

ResolveRules == [startTime : StartTimes, endTime : EndTimes, anytime : BOOLEAN]

\* a task has no time rule or, here, one
ResolveRuleLists == {<<>>} \cup { <<r>> : r \in ResolveRules }

\* grace minutes are non-negative
ResolveOptions ==
    [preGraceMinutes : {0, 3, 5}, postGraceMinutes : {0, 3, 5},
     durationDefaultMinutes : {30, 60}]

InitResolve ==
    /\ pc = "resolve"
    /\ rsTimeRules \in ResolveRuleLists
    /\ rsOptions \in ResolveOptions
    /\ rsResult = <<>>
    /\ IdleCadence
    /\ IdleConvert
    /\ IdleBuild
    /\ IdleStreak
    /\ IdleDash
    /\ IdleErr
    /\ IdleHttp
    /\ IdleMonth
    /\ IdlePoll

ResolveTimeRules ==
    /\ pc = "resolve"
    /\ rsResult' = resolveEach(effectiveTimeRules(rsTimeRules), rsOptions)
    /\ pc' = "resolved"
    /\ UNCHANGED <<rsTimeRules, rsOptions, cadenceVars, convertVars, buildVars, streakVars,
                   dashVars, errVars, httpVars, monthVars, pollVars>>

NextResolve == ResolveTimeRules

SpecResolve == InitResolve /\ [][NextResolve]_vars

-----------------------------------------------------------------------------
(* Streaks, habit-dashboard.ts. An entry of Object.entries(dayStats) is the  *)
(* record [date, stat]; breakDate null is <<>>.                              *)

\* .filter(([date]) => date <= referenceIso)
filterEntries(entries, referenceIso) ==
    LET AtOrBefore(e) == ~IsoLess(referenceIso, e.date)
    IN  SelectSeq(entries, AtOrBefore)

\* .sort(([a], [b]) => (a < b ? -1 : a > b ? 1 : 0)), a stable sort: insert e
\* behind the entries of the sorted list that are not later
RECURSIVE insertByDate(_, _)
insertByDate(sorted, e) ==
    IF sorted = <<>> THEN <<e>>
    ELSE IF ~IsoLess(e.date, sorted[Len(sorted)].date) THEN Append(sorted, e)
    ELSE Append(insertByDate(SubSeq(sorted, 1, Len(sorted) - 1), e), sorted[Len(sorted)])

RECURSIVE sortByDate(_, _)
sortByDate(entries, n) ==
    IF n = 0 THEN <<>> ELSE insertByDate(sortByDate(entries, n - 1), entries[n])

\* the first loop of computeStreakStats, from index idx downwards
RECURSIVE currentLoop(_, _, _)
currentLoop(entries, idx, current) ==
    IF idx < 1 THEN [current |-> current, breakDate |-> <<>>]
    ELSE IF entries[idx].stat.required = 0 THEN currentLoop(entries, idx - 1, current)
    ELSE IF ~entries[idx].stat.done
         THEN [current |-> current, breakDate |-> entries[idx].date]
    ELSE currentLoop(entries, idx - 1, current + 1)

\* the second loop of computeStreakStats, from entry i on
RECURSIVE longestLoop(_, _, _, _)
longestLoop(entries, i, streak, longest) ==
    IF i > Len(entries) THEN longest
    ELSE IF entries[i].stat.required = 0 THEN longestLoop(entries, i + 1, streak, longest)
    ELSE IF entries[i].stat.done
         THEN longestLoop(entries, i + 1, streak + 1,
                          IF streak + 1 > longest THEN streak + 1 ELSE longest)
    ELSE longestLoop(entries, i + 1, 0, longest)

\* variant: the longest streak is looked for in all entries, the later ones too
computeStreakStatsWholeRange(dayStats, referenceIso) ==
    LET kept    == filterEntries(dayStats, referenceIso)
        entries == sortByDate(kept, Len(kept))
        first   == currentLoop(entries, Len(entries), 0)
    IN  [current   |-> first.current,
         longest   |-> longestLoop(sortByDate(dayStats, Len(dayStats)), 1, 0, 0),
         breakDate |-> first.breakDate]

\* variant: the current streak is counted from the oldest day on
computeStreakStatsFromOldest(dayStats, referenceIso) ==
    LET kept     == filterEntries(dayStats, referenceIso)
        entries  == sortByDate(kept, Len(kept))
        backward == [i \in DOMAIN entries |-> entries[Len(entries) + 1 - i]]
        first    == currentLoop(backward, Len(backward), 0)
    IN  [current   |-> first.current,
         longest   |-> longestLoop(entries, 1, 0, 0),
         breakDate |-> first.breakDate]

\* variant: a day on which nothing is required counts as a day of the streak
computeStreakStatsCountsIdle(dayStats, referenceIso) ==
    LET kept    == filterEntries(dayStats, referenceIso)
        entries == sortByDate(kept, Len(kept))
        Counted(e) == [e EXCEPT !.stat.required = 1]
        counted == [i \in DOMAIN entries |-> Counted(entries[i])]
        first   == currentLoop(counted, Len(counted), 0)
    IN  [current   |-> first.current,
         longest   |-> longestLoop(counted, 1, 0, 0),
         breakDate |-> first.breakDate]

\* variant of the second loop: longest is updated only when a streak breaks
RECURSIVE longestLoopOnBreak(_, _, _, _)
longestLoopOnBreak(entries, i, streak, longest) ==
    IF i > Len(entries) THEN longest
    ELSE IF entries[i].stat.required = 0 THEN longestLoopOnBreak(entries, i + 1, streak, longest)
    ELSE IF entries[i].stat.done THEN longestLoopOnBreak(entries, i + 1, streak + 1, longest)
    ELSE longestLoopOnBreak(entries, i + 1, 0, IF streak > longest THEN streak ELSE longest)

\* variant: a streak that runs up to the reference day is not counted as longest
computeStreakStatsOnBreak(dayStats, referenceIso) ==
    LET kept    == filterEntries(dayStats, referenceIso)
        entries == sortByDate(kept, Len(kept))
        first   == currentLoop(entries, Len(entries), 0)
    IN  [current   |-> first.current,
         longest   |-> longestLoopOnBreak(entries, 1, 0, 0),
         breakDate |-> first.breakDate]

computeStreakStats(dayStats, referenceIso) ==
    LET kept    == filterEntries(dayStats, referenceIso)
        entries == sortByDate(kept, Len(kept))
        first   == currentLoop(entries, Len(entries), 0)
    IN  [current   |-> first.current,
         longest   |-> longestLoop(entries, 1, 0, 0),
         breakDate |-> first.breakDate]

-----------------------------------------------------------------------------
(* Specification of the streaks: computeStreakStats on the day stats of a    *)
(* range of consecutive days and a reference day of that range.              *)

MaxDays == 6

\* the k-th day of the range, which starts on 2024-05-29
DayOfRange(k) == IF k <= 3 THEN <<2024, 5, 28 + k>> ELSE <<2024, 6, k - 3>>

\* DayStat values that computeDayStat returns
DayStats ==
    { [required |-> 0, completedTasks |-> 0, done |-> TRUE],
      [required |-> 1, completedTasks |-> 1, done |-> TRUE],
      [required |-> 1, completedTasks |-> 0, done |-> FALSE],
      [required |-> 2, completedTasks |-> 1, done |-> FALSE] }

\* computeDayStats fills stats day by day from lookbackStart to the end date:
\* the entries of a range of n days
DayStatEntries(n) ==
    { [k \in 1..n |-> [date |-> DayOfRange(k), stat |-> f[k]]] : f \in [1..n -> DayStats] }

InitStreak ==
    /\ pc = "streak"
    /\ \E n \in 1..MaxDays : skStats \in DayStatEntries(n)
    /\ skRef \in { DayOfRange(k) : k \in 1..Len(skStats) }
    /\ skResult = <<>>
    /\ IdleCadence
    /\ IdleConvert
    /\ IdleBuild
    /\ IdleResolve
    /\ IdleDash
    /\ IdleErr
    /\ IdleHttp
    /\ IdleMonth
    /\ IdlePoll

\* computeStreakStats(dayStats, referenceIso)
ComputeStreakStats ==
    /\ pc = "streak"
    /\ skResult' = <<computeStreakStats(skStats, skRef)>>
    /\ pc' = "streaked"
    /\ UNCHANGED <<skStats, skRef, cadenceVars, convertVars, buildVars, resolveVars, dashVars,
                   errVars, httpVars, monthVars, pollVars>>

NextStreak == ComputeStreakStats

SpecStreak == InitStreak /\ [][NextStreak]_vars

-----------------------------------------------------------------------------
(* Day totals and day stats of the dashboard, habit-dashboard.ts. A Map is a *)
(* function on its keys, the empty Map being <<>>.                           *)

DayNumberOf(iso) == DaysFromCivil(iso[1], iso[2], iso[3])

\* the calendar date of the day number (days since 1970-01-01) in the
\* proleptic Gregorian calendar, as Intl.DateTimeFormat computes it
CivilFromDays(days) ==
    LET z   == days + 719468
        era == z \div 146097
        doe == z - era * 146097
        yoe == (doe - doe \div 1460 + doe \div 36524 - doe \div 146096) \div 365
        doy == doe - (365 * yoe + yoe \div 4 - yoe \div 100)
        mp  == (5 * doy + 2) \div 153
        d   == doy - (153 * mp + 2) \div 5 + 1
        m   == IF mp < 10 THEN mp + 3 ELSE mp - 9
        y   == yoe + era * 400
    IN  <<IF m <= 2 THEN y + 1 ELSE y, m, d>>

\* Intl.DateTimeFormat("en-CA", {timeZone, year, month, day}).format(date)
formatLocalDateISO(date, timeZone) ==
    CivilFromDays((date + ZoneOffset(timeZone, date)) \div MINUTES_IN_DAY)

\* Map.prototype.get with `?? fallback`
GetOr(map, key, fallback) == IF key \in DOMAIN map THEN map[key] ELSE fallback

\* Map.prototype.set
SetKey(map, key, value) ==
    IF key \in DOMAIN map THEN [map EXCEPT ![key] = value]
    ELSE [k \in DOMAIN map \cup {key} |-> IF k = key THEN value ELSE map[k]]

\* variant: a row without quantity adds nothing
rowQuantityNullZero(row) == IF row.qty = NoCount THEN 0 ELSE row.qty

\* row.qty === null || row.qty === undefined ? 1 : Number(row.qty)
rowQuantity(row) == IF row.qty = NoCount THEN 1 ELSE row.qty

\* the for loop of buildDayTotals from row i on
RECURSIVE totalsLoop(_, _, _, _)
totalsLoop(rows, timeZone, i, totals) ==
    IF i > Len(rows) THEN totals
    ELSE LET row        == rows[i]
             iso        == formatLocalDateISO(row.happened_at, timeZone)
             qty        == rowQuantity(row)
             taskTotals == GetOr(totals, iso, <<>>)
             current    == GetOr(taskTotals, row.task_id, 0)
         IN  totalsLoop(rows, timeZone, i + 1,
                        SetKey(totals, iso, SetKey(taskTotals, row.task_id, current + qty)))

buildDayTotals(rows, timeZone) == totalsLoop(rows, timeZone, 1, <<>>)

\* new Date(year, month, day) with setHours(0, 0, 0, 0): the instant of the
\* day's midnight on the clock of the runtime's zone
localMidnight(iso, zone) ==
    LET guess == DateUTC(iso[1], iso[2], iso[3])
    IN  guess - ZoneOffset(zone, guess - ZoneOffset(zone, guess))

\* iterateDates(start, end): the midnights from start to end, one per day, the
\* range being counted in days from its first day
iterateDates(firstDay, days, zone) ==
    [k \in 1..days |-> localMidnight(CivilFromDays(DayNumberOf(firstDay) + k - 1), zone)]

\* computeDayStats: stats[iso] = computeDayStat(iso, tasks, dayTotals)
computeDayStats(taskList, dayTotals, timeZone, firstDay, days) ==
    LET dates == iterateDates(firstDay, days, timeZone)
        isos  == { formatLocalDateISO(dates[k], timeZone) : k \in DOMAIN dates }
    IN  [iso \in isos |-> computeDayStat(iso, taskList, GetOr(dayTotals, iso, <<>>))]

-----------------------------------------------------------------------------
(* Specification of the dashboard: buildDayTotals over the log rows, then    *)
(* computeDayStats over the range of days.                                   *)

MaxHabits == 2

MaxLogs == 2

\* the first day of the range and its length in days
RangeStart == <<2024, 6, 9>>

RangeDays == 3

HabitTask(id, periodRules) ==
    [id |-> id, title |-> id, active |-> TRUE, startDate |-> <<>>, endDate |-> <<>>,
     periodRules |-> periodRules]

\* once a day in zone America/New_York; twice a day in zone Asia/Tokyo; on
\* Mondays; without rule
HabitN == HabitTask("N", <<ZoneRule("daily", 1, <<>>, "America/New_York")>>)

HabitT == HabitTask("T", <<ZoneRule("daily", 2, <<>>, "Asia/Tokyo")>>)

HabitM == HabitTask("M", <<ZoneRule("weekly", NoCount, <<1>>, DEFAULT_TIMEZONE)>>)

HabitPool == {HabitN, HabitT, HabitM}

\* task rows have distinct ids
HabitLists ==
    UNION { { l \in [1..n -> HabitPool] : \A i, j \in 1..n : i # j => l[i] # l[j] } :
            n \in 0..MaxHabits }

\* instants of 2024-06-10 that fall on different dates in the zones
LogInstants ==
    { UtcInstant(2024, 6, 10, 2, 0), UtcInstant(2024, 6, 10, 10, 0),
      UtcInstant(2024, 6, 10, 15, 30) }

\* the rows of the tasks asked for (.in("task_id", taskIds))
LogRows(taskList) ==
    [task_id : { taskList[i].id : i \in DOMAIN taskList }, happened_at : LogInstants,
     qty : {NoCount, 2}]

LogLists(taskList) == UNION { [1..n -> LogRows(taskList)] : n \in 0..MaxLogs }

ViewerZones == {"Asia/Tokyo", "America/New_York", "UTC"}

InitDash ==
    /\ pc = "totals"
    /\ dTasks \in HabitLists
    /\ dLogs \in LogLists(dTasks)
    /\ dZone \in ViewerZones
    /\ dTotals = <<>>
    /\ dStats = <<>>
    /\ IdleCadence
    /\ IdleConvert
    /\ IdleBuild
    /\ IdleResolve
    /\ IdleStreak
    /\ IdleErr
    /\ IdleHttp
    /\ IdleMonth
    /\ IdlePoll

\* fetchHabitDashboardMonth: dayTotals = buildDayTotals(logRows ?? [], timeZone)
BuildDayTotals ==
    /\ pc = "totals"
    /\ dTotals' = buildDayTotals(dLogs, dZone)
    /\ pc' = "stats"
    /\ UNCHANGED <<dTasks, dLogs, dZone, dStats, cadenceVars, convertVars, buildVars,
                   resolveVars, streakVars, errVars, httpVars, monthVars, pollVars>>

\* fetchHabitDashboardMonth: dayStats = computeDayStats({tasks: activeTasks, ...})
ComputeDayStats ==
    /\ pc = "stats"
    /\ dStats' = computeDayStats(dTasks, dTotals, dZone, RangeStart, RangeDays)
    /\ pc' = "stats done"
    /\ UNCHANGED <<dTasks, dLogs, dZone, dTotals, cadenceVars, convertVars, buildVars,
                   resolveVars, streakVars, errVars, httpVars, monthVars, pollVars>>

NextDash == BuildDayTotals \/ ComputeDayStats

SpecDash == InitDash /\ [][NextDash]_vars


-----------------------------------------------------------------------------
(* Failure paths of the window builder, block-windows.ts: the date format   *)
(* check, a time string that does not parse, and a timezone that the        *)
(* platform's zone database does not know. The outcome of a call is         *)
(* [returned |-> payload] or [threw |-> error].                             *)

\* variant: the month and the day may have one digit
matchesDateFormatLoose(str) ==
    LET parts == SplitColon([i \in DOMAIN str |-> IF str[i] = "-" THEN ":" ELSE str[i]],
                            1, <<>>, <<>>)
    IN  /\ Len(parts) = 3
        /\ \A k \in 1..3 : Len(parts[k]) > 0 /\ \A i \in DOMAIN parts[k] : IsDigit(parts[k][i])

\* /^[0-9]{4}-[0-9]{2}-[0-9]{2}$/.test(dateIso)
matchesDateFormat(str) ==
    /\ Len(str) = 10
    /\ \A i \in {1, 2, 3, 4} : IsDigit(str[i])
    /\ str[5] = "-"
    /\ \A i \in {6, 7} : IsDigit(str[i])
    /\ str[8] = "-"
    /\ \A i \in {9, 10} : IsDigit(str[i])

\* String.prototype.split('-')
RECURSIVE SplitDash(_, _, _, _)
SplitDash(str, i, cur, acc) ==
    IF i > Len(str) THEN Append(acc, cur)
    ELSE IF str[i] = "-" THEN SplitDash(str, i + 1, <<>>, Append(acc, cur))
    ELSE SplitDash(str, i + 1, Append(cur, str[i]), acc)

\* parseIsoDateParts on the characters of the date: <<year, month, day>>
parseIsoDateString(iso) ==
    LET parts == SplitDash(iso, 1, <<>>, <<>>)
    IN  <<ParseInt(parts[1])[1], ParseInt(parts[2])[1], ParseInt(parts[3])[1]>>

\* new Intl.DateTimeFormat('en-US', {timeZone, ...}) raises a RangeError when
\* the zone database does not know the identifier
getFormatterThrows(timeZone) == timeZone \notin ZoneNames

\* the task passes the three `continue` of the loop over the tasks
taskEvaluated(task, options) ==
    LET focusNames  == IF Len(options.focusTagNames) # 0
                       THEN [i \in DOMAIN options.focusTagNames |->
                                sanitizeTag(options.focusTagNames[i])]
                       ELSE DEFAULT_FOCUS_TAGS
        hasFocusTag == \E i \in DOMAIN task.tags : Includes(focusNames, sanitizeTag(task.tags[i]))
    IN  /\ taskActiveOnDate(task, options.dateIso)
        /\ determineTargetForDate(task, options.dateIso, isoDayOfWeek(options.dateIso)) > 0
        /\ ~(options.focusOnly /\ ~hasFocusTag)

\* the loop over the time rules reaches convertMinutesToDate, whose
\* extractParts asks for the formatter of a zone that has none
taskThrows(task, options) ==
    LET rules == IF Len(task.timeRules) # 0 THEN task.timeRules ELSE <<AnytimeRule>>
    IN  /\ taskEvaluated(task, options)
        /\ getFormatterThrows(resolveTaskTimeZone(task, options.timeZone))
        /\ \E k \in DOMAIN rules :
              LET m == resolveMinutesForRule(rules[k], options)
              IN  m.endMinutes > m.startMinutes

\* one call of buildBlockingWindows with dateIso as the caller passed it
buildBlockingWindowsOutcome(taskList, options) ==
    IF ~matchesDateFormat(options.dateIso)
    THEN [threw |-> "Error: Invalid date format. Expected YYYY-MM-DD"]
    ELSE LET parsed == [options EXCEPT !.dateIso = parseIsoDateString(options.dateIso)]
         IN  IF \E i \in DOMAIN taskList : taskThrows(taskList[i], parsed)
             THEN [threw |-> "RangeError: Invalid time zone specified"]
             ELSE [returned |-> buildBlockingWindows(taskList, parsed)]

-----------------------------------------------------------------------------
(* Specification of the failure paths: one call of buildBlockingWindows     *)
(* with tasks and a date that may be malformed                              *)

\* "YYYY-MM-DD" and other texts from their characters
DateText(y1, y2, y3, y4, m1, m2, d1, d2) == <<y1, y2, y3, y4, "-", m1, m2, "-", d1, d2>>

\* a date, a date that no month has, and two texts in another form
DateTexts ==
    { DateText("2", "0", "2", "4", "0", "6", "1", "0"),
      DateText("2", "0", "2", "4", "0", "2", "3", "0"),
      <<"2", "0", "2", "4", "-", "6", "-", "1", "0">>,
      <<"1", "0", "/", "0", "6", "/", "2", "0", "2", "4">> }

\* focus task with a start time that does not parse, and a rule 14:00-15:00
TaskM == Task("M", TRUE, <<>>, <<>>, <<>>,
              <<TimeRule(<<"a", "b", ":", "c", "d">>, Clock("1", "0", "0", "0")),
                TimeRule(Clock("1", "4", "0", "0"), Clock("1", "5", "0", "0"))>>, <<FocusTag>>)

\* focus task with an end time that does not parse
TaskN == Task("N", TRUE, <<>>, <<>>, <<>>,
              <<TimeRule(Clock("1", "6", "0", "0"), <<"x", "x", ":", "0", "0">>)>>, <<FocusTag>>)

\* task without focus tag, 11:00-12:00 in a zone that the database does not know
TaskZ == Task("Z", TRUE, <<>>, <<>>, <<ZoneRule("daily", 1, <<>>, "Mars/Phobos")>>,
              <<TimeRule(Clock("1", "1", "0", "0"), Clock("1", "2", "0", "0"))>>, <<WorkTag>>)

ErrTaskPool == {TaskA, TaskC, TaskM, TaskN, TaskZ}

ErrTaskLists ==
    UNION { { l \in [1..n -> ErrTaskPool] : \A i, j \in 1..n : i # j => l[i] # l[j] } :
            n \in 0..MaxTasks }

ErrOptions ==
    { Options(d, g, DEFAULT_FOCUS_TAGS, f) : d \in DateTexts, g \in {0, 5}, f \in BOOLEAN }

InitErr ==
    /\ pc = "build"
    /\ erTasks \in ErrTaskLists
    /\ erOptions \in ErrOptions
    /\ erResult = <<>>
    /\ IdleCadence
    /\ IdleConvert
    /\ IdleBuild
    /\ IdleResolve
    /\ IdleStreak
    /\ IdleDash
    /\ IdleHttp
    /\ IdleMonth
    /\ IdlePoll

BuildBlockingWindows ==
    /\ pc = "build"
    /\ erResult' = <<buildBlockingWindowsOutcome(erTasks, erOptions)>>
    /\ pc' = "built"
    /\ UNCHANGED <<erTasks, erOptions, cadenceVars, convertVars, buildVars, resolveVars,
                   streakVars, dashVars, httpVars, monthVars, pollVars>>

NextErr == BuildBlockingWindows

SpecErr == InitErr /\ [][NextErr]_vars


-----------------------------------------------------------------------------
(* HTTP boundary of the windows endpoint: GET of the two route files,       *)
(* unnamed/part_003 (tasks only) and unnamed/part_002 (tasks and the        *)
(* execution logs of the day). A query parameter is the sequence of its     *)
(* characters, <<>> when it is absent; tz is a zone identifier, "" when     *)
(* absent.                                                                  *)

Routes == {"part_003", "part_002"}

DEFAULT_PRE_GRACE_MIN(route) == IF route = "part_003" THEN 3 ELSE 0

DEFAULT_POST_GRACE_MIN(route) == IF route = "part_003" THEN 3 ELSE 0

DEFAULT_DURATION_MIN == 60

\* PUBLIC_SITE_URL is not set
DEFAULT_REDIRECT_URL(route) ==
    IF route = "part_003" THEN "https://taskworks.example/safe" ELSE "https://taskworks.example/"

\* new Intl.DateTimeFormat('en-US', { timeZone: trimmed }) in try/catch
sanitizeTimeZone(value) ==
    IF value = "" THEN ""
    ELSE IF getFormatterThrows(value) THEN ""
    ELSE value

\* formatter.format(new Date()) of 'en-CA': the current date in the zone, as text
TodayText(timeZone) ==
    IF timeZone = "Asia/Tokyo"
    THEN <<"2", "0", "2", "4", "-", "0", "6", "-", "1", "1">>
    ELSE <<"2", "0", "2", "4", "-", "0", "6", "-", "1", "0">>

resolveDateIso(dateParam, timeZone) ==
    IF dateParam # <<>> /\ matchesDateFormat(dateParam) THEN dateParam
    ELSE TodayText(timeZone)

resolveBoolean(value, fallback) ==
    IF value = <<>> THEN fallback
    ELSE LET lowered == ToLowerCase(value)
         IN  IF lowered \in { <<"t", "r", "u", "e">>, <<"1">>, <<"y", "e", "s">>, <<"y">> }
             THEN TRUE
             ELSE IF lowered \in { <<"f", "a", "l", "s", "e">>, <<"0">>, <<"n", "o">>, <<"n">> }
             THEN FALSE
             ELSE fallback

\* Number.parseFloat of a parameter that holds a whole number, or no number
resolveNumber(value, fallback) ==
    IF value = <<>> THEN fallback
    ELSE LET parsed == ParseInt(value)
         IN  IF parsed = <<>> \/ parsed[1] < 0 THEN fallback ELSE parsed[1]

\* the values GET resolves from the query parameters before the first fetch
resolveParams(route, request) ==
    LET tzParam  == sanitizeTimeZone(request.tz)
        timeZone == IF tzParam # "" THEN tzParam ELSE "UTC"
    IN  [timeZone        |-> timeZone,
         dateIso         |-> resolveDateIso(request.date, timeZone),
         focusOnly       |-> resolveBoolean(request.focus_only, route = "part_003"),
         debugMode       |-> resolveBoolean(request.debug, FALSE),
         preGrace        |-> resolveNumber(request.pre_grace_min, DEFAULT_PRE_GRACE_MIN(route)),
         postGrace       |-> resolveNumber(request.post_grace_min, DEFAULT_POST_GRACE_MIN(route)),
         durationDefault |-> resolveNumber(request.duration_default_min, DEFAULT_DURATION_MIN)]

\* the loop over execLogs: counts[taskId] = (counts[taskId] ?? 0) + qty
RECURSIVE countsLoop(_, _, _)
countsLoop(execLogs, i, counts) ==
    IF i > Len(execLogs) THEN counts
    ELSE LET log == execLogs[i]
             qty == IF log.qty = NoCount THEN 1 ELSE log.qty
         IN  IF log.task_id = "" THEN countsLoop(execLogs, i + 1, counts)
             ELSE countsLoop(execLogs, i + 1,
                             SetKey(counts, log.task_id, GetOr(counts, log.task_id, 0) + qty))

\* the rows are held as the entities of mapTaskRow
buildBlockingWindowsFromRows(rows, options) == buildBlockingWindowsOutcome(rows, options)

jsonResponse(payload, status) == [status |-> status, body |-> payload]

\* return NextResponse.json(...) for what the builder gave; an error it raised
\* leaves the handler and the server answers 500
sendWindows(route, options, rows, completedCounts, outcome) ==
    IF "threw" \in DOMAIN outcome THEN jsonResponse([error |-> outcome.threw], 500)
    ELSE IF options.debugMode /\ route = "part_003"
    THEN jsonResponse([windows |-> outcome.returned,
                       meta |-> [dateIso |-> options.dateIso, timeZone |-> options.timeZone,
                                 focusOnly |-> options.focusOnly, taskCount |-> Len(rows),
                                 windowCount |-> Len(outcome.returned)]], 200)
    ELSE IF options.debugMode
    THEN jsonResponse([windows |-> outcome.returned,
                       meta |-> [dateIso |-> options.dateIso, timeZone |-> options.timeZone,
                                 focusOnly |-> options.focusOnly, taskCount |-> Len(rows),
                                 completedCounts |-> completedCounts,
                                 windowCount |-> Len(outcome.returned)]], 200)
    ELSE jsonResponse(outcome.returned, 200)

\* the end of GET: the windows are built and sent
respondWithWindows(route, options, rows, completedCounts) ==
    sendWindows(route, options, rows, completedCounts,
                buildBlockingWindowsFromRows(rows,
                    [dateIso |-> options.dateIso, timeZone |-> options.timeZone,
                     preGraceMinutes |-> options.preGrace,
                     postGraceMinutes |-> options.postGrace,
                     durationDefaultMinutes |-> options.durationDefault,
                     focusTagNames |-> DEFAULT_FOCUS_TAGS, focusOnly |-> options.focusOnly,
                     redirectUrlDefault |-> DEFAULT_REDIRECT_URL(route)]))


-----------------------------------------------------------------------------
(* Specification of the endpoint: one request, answered by GET; the steps   *)
(* are the awaits of the handler (getUser, the task fetch, the log fetch)   *)

Request(tz, date, focusOnly, debug, preGrace) ==
    [tz |-> tz, date |-> date, focus_only |-> focusOnly, debug |-> debug,
     pre_grace_min |-> preGrace, post_grace_min |-> <<>>, duration_default_min |-> <<>>]

\* tz absent, known and unknown; date absent, well-formed and with a one-digit
\* month; pre_grace_min absent, 5 and -5
Requests ==
    { Request(tz, date, focusOnly, debug, preGrace) :
        tz \in {"", "Asia/Tokyo", "Mars/Phobos"},
        date \in { <<>>, DateText("2", "0", "2", "4", "0", "6", "1", "0"),
                   <<"2", "0", "2", "4", "-", "6", "-", "1", "0">> },
        focusOnly \in { <<>>, <<"n", "o">> },
        debug \in { <<>>, <<"1">> },
        preGrace \in { <<>>, <<"5">>, <<"-", "5">> } }

\* the active rows the store may hold
RowLists == { <<>>, <<TaskA>>, <<TaskA, TaskC>>, <<TaskZ, TaskA>> }

\* the execution logs of the day the store may hold for the rows
ExecLogLists(rows) ==
    { <<>>, <<[task_id |-> rows[1].id, qty |-> NoCount]>>,
      <<[task_id |-> rows[1].id, qty |-> 2], [task_id |-> rows[Len(rows)].id, qty |-> NoCount]>> }

InitHttp ==
    /\ pc = "getUser"
    /\ hRoute \in Routes
    /\ hRequest \in Requests
    /\ hOptions = <<>>
    /\ hRows = <<>>
    /\ hFailed = {}
    /\ hResponse = <<>>
    /\ IdleCadence
    /\ IdleConvert
    /\ IdleBuild
    /\ IdleResolve
    /\ IdleStreak
    /\ IdleDash
    /\ IdleErr
    /\ IdleMonth
    /\ IdlePoll

\* await supabase.auth.getUser(...): 401, or the parameters are resolved and
\* the task query is sent
GetUser ==
    /\ pc = "getUser"
    /\ \E authorized \in BOOLEAN :
          IF ~authorized
          THEN /\ hResponse' = <<jsonResponse([error |-> "Unauthorized"], 401)>>
               /\ hOptions' = hOptions
               /\ pc' = "responded"
          ELSE /\ hOptions' = resolveParams(hRoute, hRequest)
               /\ hResponse' = hResponse
               /\ pc' = "tasks"
    /\ UNCHANGED <<hRoute, hRequest, hRows, hFailed, cadenceVars, convertVars, buildVars,
                   resolveVars, streakVars, dashVars, errVars, monthVars, pollVars>>

\* await supabase.from('task_defs')...: 500 on taskError; part_002 goes on to
\* the log query when there are task ids (getDayBounds gives the bounds of the
\* day for every well-formed date), otherwise the windows are sent
FetchTasks ==
    /\ pc = "tasks"
    /\ \E taskError \in BOOLEAN, taskRows \in RowLists :
          IF taskError
          THEN /\ hFailed' = hFailed \cup {"task_defs"}
               /\ hRows' = hRows
               /\ hResponse' = <<jsonResponse([error |-> "Failed to fetch tasks"], 500)>>
               /\ pc' = "responded"
          ELSE /\ hFailed' = hFailed
               /\ hRows' = taskRows
               /\ IF hRoute = "part_002" /\ Len(taskRows) # 0
                  THEN hResponse' = hResponse /\ pc' = "logs"
                  ELSE /\ hResponse' = <<respondWithWindows(hRoute, hOptions, taskRows, <<>>)>>
                       /\ pc' = "responded"
    /\ UNCHANGED <<hRoute, hRequest, hOptions, cadenceVars, convertVars, buildVars,
                   resolveVars, streakVars, dashVars, errVars, monthVars, pollVars>>

\* await supabase.from('exec_logs')...: on execError a warning is logged and
\* completedCounts stays {}; then the windows are sent
FetchExecLogs ==
    /\ pc = "logs"
    /\ \E execError \in BOOLEAN, execLogs \in ExecLogLists(hRows) :
          LET completedCounts == IF execError THEN <<>> ELSE countsLoop(execLogs, 1, <<>>)
          IN  /\ hFailed' = IF execError THEN hFailed \cup {"exec_logs"} ELSE hFailed
              /\ hResponse' = <<respondWithWindows(hRoute, hOptions, hRows, completedCounts)>>
    /\ pc' = "responded"
    /\ UNCHANGED <<hRoute, hRequest, hOptions, hRows, cadenceVars, convertVars, buildVars,
                   resolveVars, streakVars, dashVars, errVars, monthVars, pollVars>>

NextHttp == GetUser \/ FetchTasks \/ FetchExecLogs

SpecHttp == InitHttp /\ [][NextHttp]_vars


-----------------------------------------------------------------------------
(* fetchHabitDashboardMonth, habit-dashboard.ts: the two store queries and   *)
(* the computation that follows them. A query is "pending" from the moment   *)
(* it is sent until it settles as "fulfilled" or "failed"; the exec_logs     *)
(* query is "not sent" before that and when there is no active task.         *)

\* Object.entries(dayStats): the days in the order computeDayStats inserted them
ObjectEntries(dayStats, timeZone, firstDay, days) ==
    LET dates == iterateDates(firstDay, days, timeZone)
    IN  [k \in DOMAIN dates |->
            [date |-> formatLocalDateISO(dates[k], timeZone),
             stat |-> dayStats[formatLocalDateISO(dates[k], timeZone)]]]

\* the last day of the range
ReferenceIso == CivilFromDays(DayNumberOf(RangeStart) + RangeDays - 1)

\* the part of fetchHabitDashboardMonth after the two queries
dashboardResult(activeTasks, logRows, timeZone) ==
    LET dayTotals == buildDayTotals(logRows, timeZone)
        dayStats  == computeDayStats(activeTasks, dayTotals, timeZone, RangeStart, RangeDays)
        streak    == computeStreakStats(ObjectEntries(dayStats, timeZone, RangeStart, RangeDays),
                                        ReferenceIso)
    IN  [resolved |-> [dayStats |-> dayStats, streak |-> streak, timezone |-> timeZone,
                       taskCount |-> Len(activeTasks)]]

\* variant: without the log rows the dashboard is computed from no rows
afterLogFetchFallback(logError, logRows, activeTasks, timeZone) ==
    IF logError # "" THEN dashboardResult(activeTasks, <<>>, timeZone)
    ELSE dashboardResult(activeTasks, logRows, timeZone)

\* if (logError) throw logError, else the dashboard is computed
afterLogFetch(logError, logRows, activeTasks, timeZone) ==
    IF logError # "" THEN [rejected |-> logError]
    ELSE dashboardResult(activeTasks, logRows, timeZone)

\* tasks.filter((task) => task.active)
activeOnly(tasks) ==
    LET IsActive(task) == task.active
    IN  SelectSeq(tasks, IsActive)

-----------------------------------------------------------------------------
(* Specification of one call of fetchHabitDashboardMonth: the steps are the *)
(* settling of the two awaited queries                                       *)

\* a habit that is not active
HabitX == [HabitTask("X", <<>>) EXCEPT !.active = FALSE]

\* the habit rows the store may hold
HabitRowLists == HabitLists \cup { <<HabitX>>, <<HabitX, HabitN>> }

\* the error a query reports: none, or the store is unavailable
StoreErrors == {"", "store unavailable"}

InitMonth ==
    /\ pc = "await tasks"
    /\ mZone \in ViewerZones
    /\ mTaskFetch = "pending"
    /\ mLogFetch = "not sent"
    /\ mRequests = <<"task_defs">>
    /\ mActive = <<>>
    /\ mOutcome = <<>>
    /\ IdleCadence
    /\ IdleConvert
    /\ IdleBuild
    /\ IdleResolve
    /\ IdleStreak
    /\ IdleDash
    /\ IdleErr
    /\ IdleHttp
    /\ IdlePoll

\* the task_defs query settles: throw taskError, or the exec_logs query is
\* sent, or (no active task) the dashboard is computed from no log rows
TaskFetchSettles ==
    /\ pc = "await tasks"
    /\ \E taskError \in StoreErrors, taskRows \in HabitRowLists :
          IF taskError # ""
          THEN /\ mTaskFetch' = "failed"
               /\ mOutcome' = <<[rejected |-> taskError]>>
               /\ pc' = "rejected"
               /\ UNCHANGED <<mLogFetch, mRequests, mActive>>
          ELSE /\ mTaskFetch' = "fulfilled"
               /\ mActive' = activeOnly(taskRows)
               /\ IF Len(mActive') # 0
                  THEN /\ mLogFetch' = "pending"
                       /\ mRequests' = Append(mRequests, "exec_logs")
                       /\ mOutcome' = mOutcome
                       /\ pc' = "await logs"
                  ELSE /\ mOutcome' = <<dashboardResult(mActive', <<>>, mZone)>>
                       /\ pc' = "resolved"
                       /\ UNCHANGED <<mLogFetch, mRequests>>
    /\ UNCHANGED <<mZone, cadenceVars, convertVars, buildVars, resolveVars, streakVars,
                   dashVars, errVars, httpVars, pollVars>>

\* the exec_logs query settles: throw logError, or the dashboard is computed
LogFetchSettles ==
    /\ pc = "await logs"
    /\ \E logError \in StoreErrors, logRows \in LogLists(mActive) :
          /\ mLogFetch' = IF logError # "" THEN "failed" ELSE "fulfilled"
          /\ mOutcome' = <<afterLogFetch(logError, logRows, mActive, mZone)>>
          /\ pc' = IF logError # "" THEN "rejected" ELSE "resolved"
    /\ UNCHANGED <<mZone, mTaskFetch, mRequests, mActive, cadenceVars, convertVars,
                   buildVars, resolveVars, streakVars, dashVars, errVars, httpVars,
                   pollVars>>

NextMonth == TaskFetchSettles \/ LogFetchSettles

SpecMonth == InitMonth /\ [][NextMonth]_vars


-----------------------------------------------------------------------------
(* Polling consumer, my-app/src/violentmonkey/url-block.js: the stored      *)
(* window cache, getBlockingWindows at page load and the background         *)
(* refresh. Times are Date.now() in milliseconds. A response of the API is  *)
(* [kind |-> "load", status, json, body], [kind |-> "error"] or             *)
(* [kind |-> "timeout"]; body is the parsed payload, [array |-> FALSE] when *)
(* it is not an array; a time that Date.parse does not read is NotATime.    *)

MIN_REFRESH_INTERVAL_MS == 60 * 1000

\* Date.parse(...) of a text that is no date: NaN
NotATime == -1

\* the comparator of windows.sort in transformApiWindows
StartsBefore(a, b) ==
    IF a.startMs = b.startMs THEN a.endMs < b.endMs ELSE a.startMs < b.startMs

\* a stable sort: insert w behind the windows that do not come after it
RECURSIVE insertWindow(_, _)
insertWindow(sorted, w) ==
    IF sorted = <<>> THEN <<w>>
    ELSE IF ~StartsBefore(w, sorted[Len(sorted)]) THEN Append(sorted, w)
    ELSE Append(insertWindow(SubSeq(sorted, 1, Len(sorted) - 1), w), sorted[Len(sorted)])

\* the loop of transformApiWindows from entry i on
RECURSIVE transformLoop(_, _, _)
transformLoop(rawWindows, i, windows) ==
    IF i > Len(rawWindows) THEN windows
    ELSE LET entry   == rawWindows[i]
             startMs == entry.start_at
             endMs   == entry.end_at
             fullDay == startMs = endMs
         IN  IF startMs = NotATime \/ endMs = NotATime
             THEN transformLoop(rawWindows, i + 1, windows)
             ELSE IF entry.policy.mode # "blocklist"
             THEN transformLoop(rawWindows, i + 1, windows)
             ELSE IF ~fullDay /\ endMs <= startMs
             THEN transformLoop(rawWindows, i + 1, windows)
             ELSE transformLoop(rawWindows, i + 1,
                                Append(windows, [type |-> "remote", startMs |-> startMs,
                                                 endMs |-> endMs, fullDay |-> fullDay,
                                                 severity |-> entry.policy.severity]))

RECURSIVE sortWindows(_, _)
sortWindows(windows, n) ==
    IF n = 0 THEN <<>> ELSE insertWindow(sortWindows(windows, n - 1), windows[n])

transformApiWindows(payload) ==
    IF ~payload.array THEN <<>>
    ELSE LET windows == transformLoop(payload.entries, 1, <<>>)
         IN  sortWindows(windows, Len(windows))

\* the promise of fetchWindowsFromApi: onload, onerror, ontimeout
fetchWindowsFromApi(response) ==
    IF response.kind = "load"
    THEN IF response.status >= 200 /\ response.status < 300
         THEN IF response.json THEN [resolved |-> transformApiWindows(response.body)]
              ELSE [rejected |-> "parse error"]
         ELSE [rejected |-> "status"]
    ELSE IF response.kind = "error" THEN [rejected |-> "connection failed"]
    ELSE [rejected |-> "timeout"]

\* variant: after a failed fetch the stale cache is not used
afterFetchFailureNoFallback(staleCache) == [windows |-> <<>>, source |-> "manual"]

\* the catch of getBlockingWindows
afterFetchFailure(staleCache) ==
    IF staleCache # <<>> THEN [windows |-> staleCache.windows, source |-> "stale-cache"]
    ELSE [windows |-> <<>>, source |-> "manual"]

\* variant: a refresh that is in flight does not hold back the next one
refreshAllowedWhileInFlight(reason, config, inFlight, now, last) ==
    /\ config # <<>>
    /\ ~(reason # "initial" /\ now - last < MIN_REFRESH_INTERVAL_MS)

\* the two early returns of triggerBackgroundRefresh
refreshAllowed(reason, config, inFlight, now, last) ==
    /\ ~(config = <<>> \/ inFlight)
    /\ ~(reason # "initial" /\ now - last < MIN_REFRESH_INTERVAL_MS)

\* Math.max(Number(config.cacheTtlMs) || 0, MIN_REFRESH_INTERVAL_MS)
refreshInterval(config) == Max(config.cacheTtlMs, MIN_REFRESH_INTERVAL_MS)


(* The userscript on one page, reloaded from time to time: SpecPoll.        *)
(* The clock advances in steps of TICK_MS. A request times out after 8000   *)
(* ms, so a request settles before the clock's next step.                   *)

TICK_MS == 30 * 1000

\* Date.now() at the first page load
START_MS == 10 * TICK_MS

MaxTicks == 3

Entry(startMs, endMs, mode) ==
    [start_at |-> startMs, end_at |-> endMs,
     policy |-> [mode |-> mode, severity |-> "hard"]]

Payloads ==
    { [array |-> TRUE, entries |-> <<Entry(1000, 2000, "blocklist")>>],
      [array |-> TRUE, entries |-> <<Entry(3000, 2000, "blocklist"),
                                     Entry(500, 900, "blocklist"),
                                     Entry(NotATime, 900, "blocklist"),
                                     Entry(100, 900, "blocklist"),
                                     Entry(100, 200, "allowlist")>>] }

Responses ==
    { [kind |-> "load", status |-> 200, json |-> TRUE, body |-> p] : p \in Payloads }
        \cup { [kind |-> "load", status |-> 200, json |-> FALSE, body |-> <<>>],
               [kind |-> "load", status |-> 500, json |-> TRUE, body |-> <<>>],
               [kind |-> "error"], [kind |-> "timeout"] }

\* what a fetch that settled is remembered as
SettledAs(outcome) == IF "resolved" \in DOMAIN outcome THEN "ok" ELSE outcome.rejected

\* the record of the calls of fetchWindowsFromApi keeps the last two
Logged(log, call) == IF Len(log) < 2 THEN Append(log, call) ELSE <<log[2], call>>

\* triggerBackgroundRefresh(reason) up to its await, with refreshConfig as
\* it is at the call
TriggerBackgroundRefresh(reason, config, log) ==
    IF refreshAllowed(reason, config, refreshInFlight, uNow, lastRefreshAt)
    THEN /\ refreshInFlight' = TRUE
         /\ uRequests' = Append(uRequests, [reason |-> reason, startedAt |-> uNow])
         /\ uFetchLog' = Logged(log, [by |-> "triggerBackgroundRefresh",
                                      reason |-> reason, at |-> uNow])
    ELSE /\ refreshInFlight' = refreshInFlight
         /\ uRequests' = uRequests
         /\ uFetchLog' = log

\* scheduleWindowRefresh(config): the interval is set anew, the listeners are
\* attached, and the 'initial' refresh is triggered
ScheduleWindowRefresh(config, log) ==
    IF config.apiBase = ""
    THEN /\ UNCHANGED <<refreshConfig, refreshTimerId, refreshInFlight, uRequests>>
         /\ uFetchLog' = log
    ELSE /\ refreshConfig' = [apiBase |-> config.apiBase]
         /\ refreshTimerId' = uNow + refreshInterval(config)
         /\ TriggerBackgroundRefresh("initial", [apiBase |-> config.apiBase], log)

InitPoll ==
    /\ pc = "getBlockingWindows"
    /\ uNow = START_MS
    /\ uConfig \in [apiBase : {"", "https://taskworks.example"},
                    cacheTtlMs : {2 * TICK_MS, 4 * TICK_MS}]
    /\ uCache \in {<<>>} \cup
                  { [windows |-> transformApiWindows(p), fetchedAt |-> START_MS - 3 * TICK_MS] :
                        p \in Payloads }
    /\ uStale = <<>>
    /\ uLoadAt = 0
    /\ uLoadFetch = "none"
    /\ uResult = <<>>
    /\ refreshConfig = <<>>
    /\ refreshInFlight = FALSE
    /\ lastRefreshAt = 0
    /\ refreshTimerId = 0
    /\ uRequests = <<>>
    /\ uFetchLog = <<>>
    /\ uSettled = ""
    /\ IdleCadence
    /\ IdleConvert
    /\ IdleBuild
    /\ IdleResolve
    /\ IdleStreak
    /\ IdleDash
    /\ IdleErr
    /\ IdleHttp
    /\ IdleMonth

\* the page load calls getBlockingWindows(config): it returns from the cache
\* or without an API base, and then scheduleWindowRefresh runs, or it sends
\* its fetch
GetBlockingWindows ==
    /\ pc = "getBlockingWindows"
    /\ uLoadAt' = uNow
    /\ uStale' = uCache
    /\ IF uCache # <<>> /\ uNow - uCache.fetchedAt <= uConfig.cacheTtlMs
       THEN /\ uResult' = <<[windows |-> uCache.windows, source |-> "cache"]>>
            /\ uLoadFetch' = "none"
            /\ pc' = "running"
            /\ ScheduleWindowRefresh(uConfig, uFetchLog)
       ELSE IF uConfig.apiBase = ""
       THEN /\ uResult' = <<[windows |-> IF uCache # <<>> THEN uCache.windows ELSE <<>>,
                             source |-> "manual"]>>
            /\ uLoadFetch' = "none"
            /\ pc' = "running"
            /\ ScheduleWindowRefresh(uConfig, uFetchLog)
       ELSE /\ uResult' = <<>>
            /\ uLoadFetch' = "pending"
            /\ pc' = "load fetch"
            /\ uFetchLog' = Logged(uFetchLog, [by |-> "getBlockingWindows",
                                               reason |-> "load", at |-> uNow])
            /\ UNCHANGED <<refreshConfig, refreshTimerId, refreshInFlight, uRequests>>
    /\ uSettled' = ""
    /\ UNCHANGED <<uNow, uConfig, uCache, lastRefreshAt, cadenceVars, convertVars,
                   buildVars, resolveVars, streakVars, dashVars, errVars, httpVars,
                   monthVars>>

\* the fetch of getBlockingWindows settles: the cache is written and the
\* windows returned, or the catch answers; then scheduleWindowRefresh runs
LoadFetchSettles ==
    /\ pc = "load fetch"
    /\ \E response \in Responses :
          LET outcome == fetchWindowsFromApi(response)
          IN  /\ IF "resolved" \in DOMAIN outcome
                 THEN /\ uCache' = [windows |-> outcome.resolved, fetchedAt |-> uNow]
                      /\ uResult' = <<[windows |-> outcome.resolved, source |-> "api"]>>
                      /\ uLoadFetch' = "ok"
                 ELSE /\ uCache' = uCache
                      /\ uResult' = <<afterFetchFailure(uStale)>>
                      /\ uLoadFetch' = "failed"
              /\ uSettled' = SettledAs(outcome)
    /\ pc' = "running"
    /\ ScheduleWindowRefresh(uConfig, uFetchLog)
    /\ UNCHANGED <<uNow, uConfig, uStale, uLoadAt, lastRefreshAt, cadenceVars,
                   convertVars, buildVars, resolveVars, streakVars, dashVars, errVars,
                   httpVars, monthVars>>

\* a listener or the interval calls triggerBackgroundRefresh(reason)
Refresh(reason) ==
    /\ TriggerBackgroundRefresh(reason, refreshConfig, uFetchLog)
    /\ uSettled' = ""
    /\ UNCHANGED <<pc, uNow, uConfig, uCache, uStale, uLoadAt, uLoadFetch, uResult,
                   refreshConfig, lastRefreshAt, cadenceVars, convertVars, buildVars,
                   resolveVars, streakVars, dashVars, errVars, httpVars, monthVars>>

\* setInterval(() => triggerBackgroundRefresh('interval'), interval)
IntervalFires ==
    /\ pc = "running"
    /\ refreshTimerId # 0
    /\ uNow = refreshTimerId
    /\ refreshTimerId' = refreshTimerId + refreshInterval(uConfig)
    /\ Refresh("interval")

\* the listeners exist once scheduleWindowRefresh has stored refreshConfig
VisibilityChange ==
    /\ pc = "running"
    /\ refreshConfig # <<>>
    /\ \E visibilityState \in {"visible", "hidden"} :
          IF visibilityState = "visible"
          THEN Refresh("visibility") /\ UNCHANGED refreshTimerId
          ELSE uSettled' = "" /\ UNCHANGED <<pc, cadenceVars, convertVars, buildVars,
                                 resolveVars, streakVars, dashVars, errVars, httpVars,
                                 monthVars, uNow, uConfig, uCache, uStale, uLoadAt,
                                 uLoadFetch, uResult, refreshConfig, refreshInFlight,
                                 lastRefreshAt, refreshTimerId, uRequests, uFetchLog>>

WindowFocus ==
    /\ pc = "running"
    /\ refreshConfig # <<>>
    /\ Refresh("focus")
    /\ UNCHANGED refreshTimerId

TaskExecuted ==
    /\ pc = "running"
    /\ refreshConfig # <<>>
    /\ Refresh("task-update")
    /\ UNCHANGED refreshTimerId

\* the fetch of triggerBackgroundRefresh settles: try, catch, finally
RefreshSettles ==
    /\ pc = "running"
    /\ uRequests # <<>>
    /\ \E response \in Responses :
          LET outcome == fetchWindowsFromApi(response)
          IN  /\ IF "resolved" \in DOMAIN outcome
                 THEN /\ uCache' = [windows |-> outcome.resolved, fetchedAt |-> uNow]
                      /\ lastRefreshAt' = uNow
                 ELSE UNCHANGED <<uCache, lastRefreshAt>>
              /\ uSettled' = SettledAs(outcome)
    /\ refreshInFlight' = FALSE
    /\ uRequests' = Tail(uRequests)
    /\ UNCHANGED <<pc, uNow, uConfig, uStale, uLoadAt, uLoadFetch, uResult, refreshConfig,
                   refreshTimerId, uFetchLog, cadenceVars, convertVars, buildVars,
                   resolveVars, streakVars, dashVars, errVars, httpVars, monthVars>>

\* the menu command that clears the schedule cache
ClearCache ==
    /\ pc = "running"
    /\ uCache' = <<>>
    /\ uSettled' = ""
    /\ UNCHANGED <<pc, uNow, uConfig, uStale, uLoadAt, uLoadFetch, uResult, refreshConfig,
                   refreshInFlight, lastRefreshAt, refreshTimerId, uRequests, uFetchLog,
                   cadenceVars, convertVars, buildVars, resolveVars, streakVars,
                   dashVars, errVars, httpVars, monthVars>>

\* the page is loaded again: the script starts over with the stored cache;
\* what the old page had in flight is dropped with the page
Reload ==
    /\ pc = "running"
    /\ uRequests = <<>>
    /\ pc' = "getBlockingWindows"
    /\ uStale' = <<>>
    /\ uLoadAt' = 0
    /\ uLoadFetch' = "none"
    /\ uResult' = <<>>
    /\ refreshConfig' = <<>>
    /\ refreshInFlight' = FALSE
    /\ lastRefreshAt' = 0
    /\ refreshTimerId' = 0
    /\ uFetchLog' = <<>>
    /\ uSettled' = ""
    /\ UNCHANGED <<uNow, uConfig, uCache, uRequests, cadenceVars, convertVars, buildVars,
                   resolveVars, streakVars, dashVars, errVars, httpVars, monthVars>>

\* time passes; the interval fires when it is due, and no request is still
\* open one step after it was sent
Tick ==
    /\ uNow < START_MS + MaxTicks * TICK_MS
    /\ refreshTimerId = 0 \/ uNow < refreshTimerId
    /\ uRequests = <<>>
    /\ pc # "load fetch"
    /\ uNow' = uNow + TICK_MS
    /\ uSettled' = ""
    /\ UNCHANGED <<pc, uConfig, uCache, uStale, uLoadAt, uLoadFetch, uResult, refreshConfig,
                   refreshInFlight, lastRefreshAt, refreshTimerId, uRequests, uFetchLog,
                   cadenceVars, convertVars, buildVars, resolveVars, streakVars,
                   dashVars, errVars, httpVars, monthVars>>

NextPoll ==
    \/ GetBlockingWindows
    \/ LoadFetchSettles
    \/ IntervalFires
    \/ VisibilityChange
    \/ WindowFocus
    \/ TaskExecuted
    \/ RefreshSettles
    \/ ClearCache
    \/ Reload
    \/ Tick

SpecPoll == InitPoll /\ [][NextPoll]_vars

\* a request settles within its timeout of 8000 ms, whatever else happens
SpecPollFair == SpecPoll /\ WF_vars(RefreshSettles) /\ WF_vars(LoadFetchSettles)

-----------------------------------------------------------------------------
(* Claims about the instant converter, checked under SpecConvert *)

\* the instants at which the zone's wall clock shows the local time
InstantsShowing(timeZone, local) ==
    { u \in { local - o : o \in ZoneOffsets(timeZone) } : u + ZoneOffset(timeZone, u) = local }

\* the local time falls neither into a daylight-saving gap nor into an overlap
OutsideTransition(timeZone, local) == Cardinality(InstantsShowing(timeZone, local)) = 1

cvLocal == DateUTC(cvDate[1], cvDate[2], cvDate[3]) + cvMinutes

\* C5: outside a gap or overlap the returned instant shows, in the zone, the
\* original date and minute of day, and the returned offset is the zone's
\* offset at that instant.
C5_RoundTrip ==
    (cvResult # <<>> /\ OutsideTransition(cvZone, cvLocal)) =>
        LET r == cvResult[1]
        IN  /\ r.date + ZoneOffset(cvZone, r.date) = cvLocal
            /\ r.offsetMinutes = ZoneOffset(cvZone, r.date)

\* a local time on the day of a transition, after it, in a zone west of UTC,
\* for which the second pass of the correction was needed
C5_Witness ==
    /\ cvResult # <<>>
    /\ cvZone = "America/New_York"
    /\ cvDate = <<2024, 11, 3>>
    /\ cvMinutes = 150
    /\ OutsideTransition(cvZone, cvLocal)
    /\ cvResult[1].offsetMinutes = 0 - 300
    /\ cvResult[1].date = cvLocal + 300

-----------------------------------------------------------------------------
(* Claims about the cadence matcher, checked under SpecCadence *)

\* the task is active and the date lies in its inclusive start/end range
InRange(task, date) ==
    /\ task.active
    /\ task.startDate = <<>> \/ ~IsoLess(date, task.startDate)
    /\ task.endDate = <<>> \/ ~IsoLess(task.endDate, date)

\* timesPerPeriod, 1 when unset
CountOf(rule) == IF rule.timesPerPeriod = NoCount THEN 1 ELSE rule.timesPerPeriod

RECURSIVE SumOver(_, _)
SumOver(S, f) ==
    IF S = {} THEN 0
    ELSE LET x == CHOOSE y \in S : TRUE IN f[x] + SumOver(S \ {x}, f)

DayNumber(iso) == DaysFromCivil(iso[1], iso[2], iso[3])

\* day of week counted from the known Monday 2024-06-10
Weekday(iso) == (DayNumber(iso) - DayNumber(<<2024, 6, 10>>) + 1) % 7

Elements(arr) == {arr[i] : i \in DOMAIN arr}

\* C6: for an active task on a date inside its range the target is the sum of
\* timesPerPeriod (1 when unset) over the rules that match the date, and it is
\* exactly 1 when the task has no recurrence rule; on both computation paths.
C6_Additive ==
    LET rules == tgTask.periodRules
        dow   == isoDayOfWeek(tgDate)
        count == [i \in DOMAIN rules |-> CountOf(rules[i])]
    IN  InRange(tgTask, tgDate) =>
          /\ tgBlock # <<>> =>
                tgBlock[1] = IF rules = <<>> THEN 1
                             ELSE SumOver({i \in DOMAIN rules :
                                            ruleMatchesDate(rules[i], tgDate, dow)}, count)
          /\ tgHabit # <<>> =>
                tgHabit[1] = IF rules = <<>> THEN 1
                             ELSE SumOver({i \in DOMAIN rules :
                                            habitRuleMatchesDate(rules[i], tgDate, dow)}, count)

\* two matching rules with different counts were added up
C6_Witness ==
    /\ InRange(tgTask, tgDate)
    /\ tgTask.periodRules = <<Rule("daily", NoCount, <<>>), Rule("weekly", 2, <<1, 3>>)>>
    /\ tgDate = <<2024, 6, 12>>
    /\ tgBlock = <<3>>
    /\ tgHabit = <<3>>

\* the match predicate as the claim states it
ExpectedMatch(rule, date) ==
    CASE rule.cadence = "daily" -> TRUE
      [] rule.cadence = "weekly" ->
            rule.daysOfWeek = <<>> \/ Weekday(date) \in Elements(rule.daysOfWeek)
      [] rule.cadence = "monthly" ->
            IF rule.daysOfWeek = <<>> THEN date[3] = 1
            ELSE date[3] \in Elements(rule.daysOfWeek)

\* C7: daily matches every date; weekly matches iff the day of week is in the
\* day set (every date when the set is empty); monthly matches iff the day of
\* month is in the day set (only the 1st when the set is empty). Seen on the
\* predicate of both paths and on the target of a task owning one such rule.
C7_MatchPredicate ==
    LET rules == tgTask.periodRules
        dow   == isoDayOfWeek(tgDate)
    IN  /\ \A i \in DOMAIN rules :
              rules[i].cadence \in {"daily", "weekly", "monthly"} =>
                /\ ruleMatchesDate(rules[i], tgDate, dow) = ExpectedMatch(rules[i], tgDate)
                /\ habitRuleMatchesDate(rules[i], tgDate, dow) = ExpectedMatch(rules[i], tgDate)
        /\ ( /\ Len(rules) = 1
             /\ rules[1].cadence \in {"daily", "weekly", "monthly"}
             /\ InRange(tgTask, tgDate) ) =>
              LET want == IF ExpectedMatch(rules[1], tgDate) THEN CountOf(rules[1]) ELSE 0
              IN  /\ tgBlock # <<>> => tgBlock[1] = want
                  /\ tgHabit # <<>> => tgHabit[1] = want

\* a monthly rule with an empty day set was evaluated on a day other than the 1st
C7_Witness ==
    /\ InRange(tgTask, tgDate)
    /\ tgTask.periodRules = <<Rule("monthly", 1, <<>>)>>
    /\ tgDate = <<2024, 6, 10>>
    /\ tgBlock = <<0>>
    /\ tgHabit = <<0>>

SingleDay(task) == task.startDate # <<>> /\ task.startDate = task.endDate

C10_TargetNatural ==
    /\ tgBlock # <<>> => tgBlock[1] \in Nat
    /\ tgHabit # <<>> => tgHabit[1] \in Nat

\* an inactive task and an active task with stacked rules were both evaluated
C10_Witness ==
    /\ tgBlock # <<>>
    /\ tgHabit # <<>>
    /\ ~InRange(tgTask, tgDate)
    /\ Len(tgTask.periodRules) = 2
    /\ tgBlock[1] = 0

-----------------------------------------------------------------------------
(* Claims about the window builder and merger, checked under SpecBuild *)

\* window i of the output is the payload of merged[i]: its start and end instant
OutStart(i) == bMerged[i].startUtc

OutEnd(i) == bMerged[i].endUtc

\* the output list is the merged list, window by window
OutputOfMerged ==
    /\ Len(bOutput) = Len(bMerged)
    /\ \A i \in DOMAIN bOutput :
          /\ bOutput[i].start_at = bMerged[i].startIso
          /\ bOutput[i].end_at = bMerged[i].endIso
          /\ bOutput[i].reason = bMerged[i].reasons
          /\ bOutput[i].policy.severity = bMerged[i].severity
          /\ bOutput[i].policy.redirect_url = bMerged[i].redirectUrl

\* the attributes that decide whether two windows may be merged
SamePolicy(a, b) ==
    a.timeZone = b.timeZone /\ a.redirectUrl = b.redirectUrl /\ a.severity = b.severity

\* C1 as stated: the output is ordered by ascending start instant and no two
\* of its windows overlap, whatever their severity and timezone.
C1_Original ==
    pc = "done" =>
        /\ OutputOfMerged
        /\ \A i, j \in DOMAIN bOutput :
              i < j => OutStart(i) <= OutStart(j) /\ OutEnd(i) <= OutStart(j)

\* C1 amended: the output is ordered by ascending start instant, and two
\* consecutive windows with the same timezone, redirect target and severity are
\* separated by a gap; windows that differ in one of these may overlap.
C1_SortedAdjacentDisjoint ==
    pc = "done" =>
        /\ OutputOfMerged
        /\ \A i, j \in DOMAIN bOutput : i < j => OutStart(i) <= OutStart(j)
        /\ \A i \in DOMAIN bOutput :
              (i < Len(bOutput) /\ SamePolicy(bMerged[i], bMerged[i + 1]))
                  => OutEnd(i) < OutStart(i + 1)

\* two windows of one policy with a gap between them, pushed in descending order
C1_Witness ==
    /\ pc = "done"
    /\ bTasks = <<TaskF, TaskE>>
    /\ Len(bOutput) = 2
    /\ SamePolicy(bMerged[1], bMerged[2])
    /\ bOutput[1].reason = <<buildReason(TaskE)>>
    /\ OutEnd(1) < OutStart(2)

Perms(taskList) ==
    { [i \in DOMAIN taskList |-> taskList[f[i]]] : f \in Permutations(DOMAIN taskList) }

\* the merged windows of a payload list as a set, reasons as a set
WindowSet(payload) ==
    { [start |-> payload[i].start_at, end |-> payload[i].end_at,
       reasons |-> Elements(payload[i].reason), policy |-> payload[i].policy] :
        i \in DOMAIN payload }

\* C2: every permutation of the task list yields the same set of merged windows.
C2_OrderIndependent ==
    pc = "done" =>
        \A p \in Perms(bTasks) :
            WindowSet(buildBlockingWindows(p, bOptions)) = WindowSet(bOutput)

\* the condition under which the claim lets a candidate join the last window
MayJoin(last, w) == SamePolicy(last, w) /\ w.startUtc <= last.endUtc

\* C3, one iteration: the candidate joins the last emitted window exactly when
\* MayJoin holds; then the end becomes the maximum of both ends and the reasons
\* the duplicate-free union, everything else stays; otherwise it is appended.
C3_Step ==
    (pc = "merge" /\ bIdx <= Len(bSorted)) =>
        LET w == bSorted[bIdx]
            n == Len(bMerged)
        IN  IF n > 0 /\ MayJoin(bMerged[n], w)
            THEN /\ Len(bMerged') = n
                 /\ \A k \in 1..(n - 1) : bMerged'[k] = bMerged[k]
                 /\ bMerged'[n].startUtc = bMerged[n].startUtc
                 /\ bMerged'[n].endUtc = Max(bMerged[n].endUtc, w.endUtc)
                 /\ Elements(bMerged'[n].reasons)
                        = Elements(bMerged[n].reasons) \cup Elements(w.reasons)
                 /\ \A a, b \in DOMAIN bMerged'[n].reasons :
                        a # b => bMerged'[n].reasons[a] # bMerged'[n].reasons[b]
                 /\ SamePolicy(bMerged'[n], bMerged[n])
            ELSE bMerged' = Append(bMerged, w)

\* C3, the scenario: 09:00-10:00 and 09:55-11:00 with equal attributes and no
\* grace give one window 09:00-11:00 that carries both reasons.
C3_Scenario ==
    ( /\ pc = "done"
      /\ bTasks \in {<<TaskA, TaskB>>, <<TaskB, TaskA>>}
      /\ Len(bWindows) = 2
      /\ bOptions.preGraceMinutes = 0 ) =>
        LET midnight == DateUTC(bOptions.dateIso[1], bOptions.dateIso[2], bOptions.dateIso[3])
                            - ZoneOffset(bOptions.timeZone, 0)
        IN  /\ Len(bOutput) = 1
            /\ OutStart(1) = midnight + 9 * 60
            /\ OutEnd(1) = midnight + 11 * 60
            /\ Elements(bOutput[1].reason) = {buildReason(TaskA), buildReason(TaskB)}

\* C3: the merge rule of the walk over the sorted candidates, and its scenario.
C3_MergeRule == [][C3_Step]_vars /\ []C3_Scenario

\* the scenario has run: the second candidate joined the window of the first
C3_Witness ==
    /\ pc = "done"
    /\ bTasks = <<TaskA, TaskB>>
    /\ bOptions.preGraceMinutes = 0
    /\ Len(bSorted) = 2
    /\ bSorted[2].startUtc < bSorted[1].endUtc
    /\ Len(bOutput) = 1
    /\ bOutput[1].reason = <<buildReason(TaskA), buildReason(TaskB)>>
    /\ OutEnd(1) - OutStart(1) = 120

\* C4: two distinct output windows with the same timezone, redirect target and
\* severity are separated by a gap, whatever starts between them.
C4_MinimalCover ==
    pc = "done" =>
        \A i, j \in DOMAIN bMerged :
            (i < j /\ SamePolicy(bMerged[i], bMerged[j]))
                => bMerged[j].startUtc > bMerged[i].endUtc

\* C8: a task that is inactive, not yet started or already ended on the date has
\* target 0 on both paths, no output window carries its reason, and the day stat
\* counts in required exactly the tasks in range with a positive target.
C8_OutOfRangeIgnored ==
    pc = "done" =>
        LET d   == bOptions.dateIso
            dow == isoDayOfWeek(d)
        IN  /\ \A i \in DOMAIN bTasks :
                  ~InRange(bTasks[i], d) =>
                    /\ determineTargetForDate(bTasks[i], d, dow) = 0
                    /\ habitDetermineTargetForDate(bTasks[i], d, dow) = 0
                    /\ \A k \in DOMAIN bOutput :
                          buildReason(bTasks[i]) \notin Elements(bOutput[k].reason)
            /\ bStat # <<>> =>
                  bStat[1].required =
                      Cardinality({ i \in DOMAIN bTasks :
                                      /\ InRange(bTasks[i], d)
                                      /\ habitDetermineTargetForDate(bTasks[i], d, dow) > 0 })

\* an inactive task, an ended task and a due task were built and counted
C8_Witness ==
    /\ pc = "done"
    /\ bStat # <<>>
    /\ bTasks = <<TaskG, TaskH, TaskA>>
    /\ bOptions.dateIso = <<2024, 6, 11>>
    /\ Len(bOutput) = 1
    /\ bStat[1].required = 1

-----------------------------------------------------------------------------
(* C11 *)

\* C11: for every task and date the target of the window builder, the target
\* of the day-stat aggregator and the target of the task overview are equal.
C11_UniformTargets ==
    (tgBlock # <<>> /\ tgHabit # <<>> /\ tgStorage # <<>>)
        => (tgBlock = tgHabit /\ tgHabit = tgStorage)

-----------------------------------------------------------------------------
(* Claims about the time-of-day resolver, checked under SpecResolve *)

\* the minute of the day that "hh:mm" or "hh:mm:ss" names
MinuteOfDay(clock) ==
    (DigitValue(clock[1]) * 10 + DigitValue(clock[2])) * 60
        + DigitValue(clock[4]) * 10 + DigitValue(clock[5])

Clamp(value, lo, hi) == IF value < lo THEN lo ELSE IF value > hi THEN hi ELSE value

\* the rule has a start time and is not anytime
Timed(rule) == ~rule.anytime /\ rule.startTime # <<>>

\* C12: a timed rule with start S resolves to start clamp(S - preGrace, 0,
\* 1440) and to end clamp(E + postGrace, 0, 1440) with an end time E, else
\* clamp(S + durationDefault + postGrace, 0, 1440) from the un-graced S;
\* 09:00-10:00 with grace 5 and 5 resolves to 08:55-10:05.
C12_TimedInterval ==
    pc = "resolved" =>
        \A k \in DOMAIN rsTimeRules :
            LET rule == rsTimeRules[k]
                S    == MinuteOfDay(rule.startTime)
                pre  == rsOptions.preGraceMinutes
                post == rsOptions.postGraceMinutes
            IN  Timed(rule) =>
                    /\ rsResult[k].startMinutes = Clamp(S - pre, 0, 1440)
                    /\ rule.endTime # <<>> =>
                            rsResult[k].endMinutes
                                = Clamp(MinuteOfDay(rule.endTime) + post, 0, 1440)
                    /\ rule.endTime = <<>> =>
                            rsResult[k].endMinutes
                                = Clamp(S + rsOptions.durationDefaultMinutes + post, 0, 1440)
                    /\ (/\ rule.startTime = Clock("0", "9", "0", "0")
                        /\ rule.endTime = Clock("1", "0", "0", "0")
                        /\ pre = 5 /\ post = 5)
                        => rsResult[k] = [startMinutes |-> 8 * 60 + 55,
                                          endMinutes   |-> 10 * 60 + 5]

\* a rule 09:00 without end time, grace 5 before and 0 after, duration 60:
\* 08:55-10:00, the end counted from 09:00
C12_Witness ==
    /\ pc = "resolved"
    /\ rsTimeRules = <<[startTime |-> Clock("0", "9", "0", "0"), endTime |-> <<>>,
                        anytime |-> FALSE]>>
    /\ rsOptions.preGraceMinutes = 5
    /\ rsOptions.postGraceMinutes = 0
    /\ rsOptions.durationDefaultMinutes = 60
    /\ rsResult = <<[startMinutes |-> 535, endMinutes |-> 600]>>

\* C13: a rule that is anytime or has no start time, and the implicit rule
\* of a task without time rules, resolves to exactly [0, 1440] whatever the
\* non-negative graces are.
C13_AnytimeWholeDay ==
    pc = "resolved" =>
        /\ rsTimeRules = <<>> => rsResult = <<[startMinutes |-> 0, endMinutes |-> 1440]>>
        /\ \A k \in DOMAIN rsTimeRules :
                ~Timed(rsTimeRules[k])
                    => rsResult[k] = [startMinutes |-> 0, endMinutes |-> 1440]

\* a task without time rules resolved with grace 5 before and 3 after
C13_Witness ==
    /\ pc = "resolved"
    /\ rsTimeRules = <<>>
    /\ rsOptions.preGraceMinutes = 5
    /\ rsOptions.postGraceMinutes = 3
    /\ rsResult = <<[startMinutes |-> 0, endMinutes |-> 1440]>>

-----------------------------------------------------------------------------
(* Claims about degenerate windows and the focus policy, under SpecBuild *)

\* the local interval of the rule and its instants in the task's zone are
\* both of positive length
PositiveLength(task, rule) ==
    LET m  == resolveMinutesForRule(rule, bOptions)
        tz == resolveTaskTimeZone(task, bOptions.timeZone)
    IN  /\ m.endMinutes > m.startMinutes
        /\ convertMinutesToDate(bOptions.dateIso, m.endMinutes, tz).date
              > convertMinutesToDate(bOptions.dateIso, m.startMinutes, tz).date

\* the candidates that the task pushed
CandidatesOf(task) == { i \in DOMAIN bWindows : bWindows[i].reasons = <<buildReason(task)>> }

\* the loop over the tasks has just run; the candidates stay as they are from
\* here on
CollectJustRan == pc = "sort" \/ (pc = "done" /\ Len(bWindows) = 0 /\ bStat = <<>>)

NonEmpty(windows) == \A i \in DOMAIN windows : windows[i].endUtc > windows[i].startUtc

\* the local interval that C12 and C13 give for the rule
IntervalOf(rule) ==
    LET pre  == bOptions.preGraceMinutes
        post == bOptions.postGraceMinutes
    IN  IF ~Timed(rule) THEN [startMinutes |-> 0, endMinutes |-> 1440]
        ELSE LET S == MinuteOfDay(rule.startTime)
             IN  [startMinutes |-> Clamp(S - pre, 0, 1440),
                  endMinutes   |->
                      IF rule.endTime # <<>>
                      THEN Clamp(MinuteOfDay(rule.endTime) + post, 0, 1440)
                      ELSE Clamp(S + bOptions.durationDefaultMinutes + post, 0, 1440)]

\* the rules of the task whose resolved local interval is of positive length
PositiveRules(task) ==
    LET rules == effectiveTimeRules(task.timeRules)
    IN  { k \in DOMAIN rules : IntervalOf(rules[k]).endMinutes > IntervalOf(rules[k]).startMinutes }

\* C14: a rule whose resolved endMinute is not above its startMinute gives no
\* candidate, no candidate has an end instant at or before its start instant,
\* and every window before and after merging, and so every window of the
\* output, ends strictly after it starts.
C14_NoDegenerateWindow ==
    /\ NonEmpty(bWindows) /\ NonEmpty(bSorted) /\ NonEmpty(bMerged)
    /\ pc = "done" /\ Len(bWindows) > 0 => OutputOfMerged
    /\ CollectJustRan =>
          \A t \in DOMAIN bTasks :
              CandidatesOf(bTasks[t]) # {} =>
                  Cardinality(CandidatesOf(bTasks[t])) <= Cardinality(PositiveRules(bTasks[t]))

\* task K on 2024-03-10: of its three rules only 03:00-04:00 gives a window
C14_Witness ==
    /\ pc = "done"
    /\ bTasks = <<TaskK>>
    /\ bOptions.dateIso = <<2024, 3, 10>>
    /\ Len(bWindows) = 1
    /\ Len(bOutput) = 1
    /\ bMerged[1].startUtc = UtcInstant(2024, 3, 10, 7, 0)
    /\ bMerged[1].endUtc = UtcInstant(2024, 3, 10, 8, 0)
    /\ PositiveRules(TaskK) = {1, 3}
    /\ ~PositiveLength(TaskK, TaskK.timeRules[1])

UpperLetters == { Upper[k] : k \in DOMAIN Upper }

\* the lower-case letter of each upper-case letter
LowerOf == [c \in UpperLetters |-> Lower[CHOOSE k \in DOMAIN Upper : Upper[k] = c]]

\* a tag in lower case without its leading #
Normal(tag) ==
    LET bare == IF tag # <<>> /\ Head(tag) = "#" THEN Tail(tag) ELSE tag
    IN  [i \in DOMAIN bare |-> IF bare[i] \in UpperLetters THEN LowerOf[bare[i]] ELSE bare[i]]

\* the focus tags of the call
FocusTagsOf(options) ==
    IF options.focusTagNames = <<>> THEN DEFAULT_FOCUS_TAGS ELSE options.focusTagNames

\* one of the task's tags equals one of the focus tags, both normalised
FocusMatch(task) ==
    \E i \in DOMAIN task.tags : \E j \in DOMAIN FocusTagsOf(bOptions) :
        Normal(task.tags[i]) = Normal(FocusTagsOf(bOptions)[j])

\* the tasks a window originates from: those whose reason it carries
TasksOf(window) ==
    { bTasks[t] : t \in { u \in DOMAIN bTasks : Includes(window.reasons, buildReason(bTasks[u])) } }

\* every window carries a reason, is strict iff its tasks have a focus match,
\* and under focusOnly originates from tasks with a focus match only
FocusPolicy(windows) ==
    \A i \in DOMAIN windows :
        /\ TasksOf(windows[i]) # {}
        /\ \A task \in TasksOf(windows[i]) :
              /\ windows[i].severity = (IF FocusMatch(task) THEN "strict" ELSE "lenient")
              /\ bOptions.focusOnly => FocusMatch(task)

\* every merged window carries reasons of candidates only, and has the
\* severity of each candidate whose reason it carries
SeverityKept ==
    \A i \in DOMAIN bMerged :
        /\ bMerged[i].reasons # <<>>
        /\ \A r \in DOMAIN bMerged[i].reasons :
              \E c \in DOMAIN bWindows : bWindows[c].reasons = <<bMerged[i].reasons[r]>>
        /\ \A c \in DOMAIN bWindows :
              Includes(bMerged[i].reasons, bWindows[c].reasons[1])
                  => bMerged[i].severity = bWindows[c].severity

\* C15: a task has a focus match iff a tag of it equals a focus tag after
\* lower-casing and stripping a leading #; under focusOnly no window comes
\* from a task without a match; a window is strict iff its task has a match,
\* before merging and, as merging keeps the severity, after it; so under
\* focusOnly every output window is strict.
C15_FocusPolicy ==
    /\ CollectJustRan => FocusPolicy(bWindows)
    /\ pc = "merge" /\ bIdx > Len(bSorted) => SeverityKept
    /\ pc = "done" /\ Len(bWindows) > 0 => OutputOfMerged
    /\ bOptions # <<>> /\ bOptions.focusOnly =>
          \A i \in DOMAIN bOutput : bOutput[i].policy.severity = "strict"

\* focus tag name "#Work", focusOnly off: task A (tag focus) is lenient and
\* task C (tag work) is strict
C15_Witness ==
    /\ pc = "done"
    /\ bTasks = <<TaskA, TaskC>>
    /\ bOptions.focusTagNames = <<WorkFocusName>>
    /\ ~bOptions.focusOnly
    /\ Len(bOutput) = 2
    /\ bOutput[1].reason = <<buildReason(TaskA)>>
    /\ bOutput[1].policy.severity = "lenient"
    /\ bOutput[2].reason = <<buildReason(TaskC)>>
    /\ bOutput[2].policy.severity = "strict"

-----------------------------------------------------------------------------
(* Claims about the streaks, checked under SpecStreak *)

\* the entries at or before the reference date
UpToReference == { i \in DOMAIN skStats : ~IsoLess(skRef, skStats[i].date) }

\* the entries of S on which something is required
Counted(S) == { i \in S : skStats[i].stat.required > 0 }

\* the counted entries of S that are not done
Missed(S) == { i \in Counted(S) : ~skStats[i].stat.done }

\* entry i is of a later date than entry j
Later(i, j) == IsoLess(skStats[j].date, skStats[i].date)

\* the entries with the stats given, on consecutive days from the first day on
StatsAre(stats) ==
    /\ Len(skStats) = Len(stats)
    /\ \A i \in DOMAIN stats : skStats[i].stat = stats[i]

DoneDay == [required |-> 1, completedTasks |-> 1, done |-> TRUE]

MissedDay == [required |-> 1, completedTasks |-> 0, done |-> FALSE]

IdleDay == [required |-> 0, completedTasks |-> 0, done |-> TRUE]

\* C16: among the days at or before the reference on which something is
\* required, breakDate is the latest day that is not done, null iff there is
\* none, and current is the number of days after it (of all, if there is
\* none); done, done, not done, done, done with the last day as reference
\* gives current 2, longest 2 and the third day as breakDate.
C16_CurrentStreak ==
    pc = "streaked" =>
        LET r      == skResult[1]
            missed == Missed(UpToReference)
        IN  /\ r.breakDate = <<>> <=> missed = {}
            /\ missed = {} => r.current = Cardinality(Counted(UpToReference))
            /\ missed # {} =>
                    LET m == CHOOSE i \in missed : \A j \in missed : ~Later(j, i)
                    IN  /\ r.breakDate = skStats[m].date
                        /\ r.current
                              = Cardinality({ i \in Counted(UpToReference) : Later(i, m) })
            /\ (/\ StatsAre(<<DoneDay, DoneDay, MissedDay, DoneDay, DoneDay>>)
                /\ skRef = DayOfRange(5))
                => r = [current |-> 2, longest |-> 2, breakDate |-> DayOfRange(3)]

\* the scenario of C16, computed
C16_Witness ==
    /\ pc = "streaked"
    /\ StatsAre(<<DoneDay, DoneDay, MissedDay, DoneDay, DoneDay>>)
    /\ skRef = DayOfRange(5)
    /\ skResult = <<[current |-> 2, longest |-> 2, breakDate |-> DayOfRange(3)]>>

\* the number of counted days of S from entry a to entry b, if all of them
\* are done, and 0 if one is not
RunLength(S, a, b) ==
    LET within == { i \in S : ~Later(a, i) /\ ~Later(i, b) }
    IN  IF Missed(within) = {} THEN Cardinality(Counted(within)) ELSE 0

\* the maximum length of a run of done days among the entries S
LongestRun(S) ==
    LET lengths == { RunLength(S, a, b) : a \in S, b \in S } \cup {0}
    IN  CHOOSE n \in lengths : \A m \in lengths : m <= n

\* C17 as stated: longest is the maximum run of done days over the whole
\* range of the day stats, the days later than the reference date included.
C17_Original ==
    pc = "streaked" => skResult[1].longest = LongestRun(DOMAIN skStats)

\* C17: longest is the maximum run of done days over the days at or before
\* the reference date, where a day that is not done resets the run and a day
\* on which nothing is required neither resets nor lengthens it.
C17_LongestUpToReference ==
    pc = "streaked" => skResult[1].longest = LongestRun(UpToReference)

\* done, not done, done, done with the first day as reference: the run of
\* two lies behind the reference and longest is 1
C17_Witness ==
    /\ pc = "streaked"
    /\ StatsAre(<<DoneDay, MissedDay, DoneDay, DoneDay>>)
    /\ skRef = DayOfRange(1)
    /\ skResult[1].longest = 1
    /\ LongestRun(DOMAIN skStats) = 2

\* the entries without entry i
Without(entries, i) == SubSeq(entries, 1, i - 1) \o SubSeq(entries, i + 1, Len(entries))

\* C18: the day stats with and without a day on which nothing is required
\* have the same current, longest and breakDate, wherever the day lies; done,
\* nothing required, done is a streak of 2.
C18_TransparentDays ==
    pc = "streaked" =>
        /\ \A i \in DOMAIN skStats :
              skStats[i].stat.required = 0
                  => computeStreakStats(Without(skStats, i), skRef) = skResult[1]
        /\ (StatsAre(<<DoneDay, IdleDay, DoneDay>>) /\ skRef = DayOfRange(3))
              => skResult[1] = [current |-> 2, longest |-> 2, breakDate |-> <<>>]

\* a day without requirement between two done days, the last day as reference
C18_Witness ==
    /\ pc = "streaked"
    /\ StatsAre(<<DoneDay, IdleDay, DoneDay>>)
    /\ skRef = DayOfRange(3)
    /\ skResult = <<[current |-> 2, longest |-> 2, breakDate |-> <<>>]>>
    /\ computeStreakStats(Without(skStats, 2), skRef) = skResult[1]

-----------------------------------------------------------------------------
(* Claims about the day stats of the dashboard, checked under SpecDash *)

\* the dates of the evaluated range
EvaluatedDates == { CivilFromDays(DayNumber(RangeStart) + k) : k \in 0..(RangeDays - 1) }

\* the target of the task on the date
TargetOn(task, date) == habitDetermineTargetForDate(task, date, isoDayOfWeek(date))

\* the quantity that the day totals hold for the task on the date
LoggedOn(task, date) == GetOr(GetOr(dTotals, date, <<>>), task.id, 0)

\* C19: on every date of the evaluated range required is the number of tasks
\* with a target above 0, completedTasks the number of those whose summed
\* quantity of the date reaches the target, and done holds iff required is 0
\* or completedTasks equals required; so 0 <= completedTasks <= required.
C19_DayStat ==
    pc = "stats done" =>
        /\ DOMAIN dStats = EvaluatedDates
        /\ \A date \in EvaluatedDates :
              LET due == { i \in DOMAIN dTasks : TargetOn(dTasks[i], date) > 0 }
                  met == { i \in due :
                             LoggedOn(dTasks[i], date) >= TargetOn(dTasks[i], date) }
                  stat == dStats[date]
              IN  /\ stat.required = Cardinality(due)
                  /\ stat.completedTasks = Cardinality(met)
                  /\ stat.done <=> (stat.required = 0 \/ stat.completedTasks = stat.required)
                  /\ 0 <= stat.completedTasks /\ stat.completedTasks <= stat.required

\* tasks N (once a day) and T (twice a day), each logged once on 2024-06-10:
\* one of the two required tasks is complete that day, none the day before
C19_Witness ==
    /\ pc = "stats done"
    /\ dTasks = <<HabitN, HabitT>>
    /\ dZone = "Asia/Tokyo"
    /\ dLogs = <<[task_id |-> "N", happened_at |-> UtcInstant(2024, 6, 10, 10, 0),
                  qty |-> NoCount],
                 [task_id |-> "T", happened_at |-> UtcInstant(2024, 6, 10, 10, 0),
                  qty |-> NoCount]>>
    /\ dStats[<<2024, 6, 10>>] = [required |-> 2, completedTasks |-> 1, done |-> FALSE]
    /\ dStats[<<2024, 6, 9>>] = [required |-> 2, completedTasks |-> 0, done |-> FALSE]

\* the quantity of a log row, 1 when it is not set
QuantityOf(row) == IF row.qty = NoCount THEN 1 ELSE row.qty

\* the rows of the task whose instant falls on the date in the task's own zone
RowsOn(task, date) ==
    { k \in DOMAIN dLogs :
        /\ dLogs[k].task_id = task.id
        /\ formatLocalDateISO(dLogs[k].happened_at,
                              resolveTaskTimeZone(task, DEFAULT_TIMEZONE)) = date }

\* the dates on which a log instant may fall in some zone
LogDates == { formatLocalDateISO(t, z) : t \in LogInstants, z \in ZoneNames }

\* C20: the quantity of every log of a task counts toward the date on which
\* the log's instant falls in the task's own timezone, also when the viewer's
\* timezone puts the instant on another date.
C20_TaskZoneAttribution ==
    pc # "totals" =>
        \A i \in DOMAIN dTasks : \A date \in LogDates :
            LoggedOn(dTasks[i], date)
                = SumOver(RowsOn(dTasks[i], date),
                          [k \in RowsOn(dTasks[i], date) |-> QuantityOf(dLogs[k])])

-----------------------------------------------------------------------------
(* Claims about the failure paths of the window builder, checked under SpecErr *)

DigitSet == {"0", "1", "2", "3", "4", "5", "6", "7", "8", "9"}

\* the text with every digit replaced by "d"
Shape(str) == [i \in DOMAIN str |-> IF str[i] \in DigitSet THEN "d" ELSE str[i]]

\* a time of day "hh:mm" or "hh:mm:ss", or no time
WellFormedTime(str) ==
    Shape(str) \in { <<>>, <<"d", "d", ":", "d", "d">>,
                     <<"d", "d", ":", "d", "d", ":", "d", "d">> }

Malformed(rule) == ~WellFormedTime(rule.startTime) \/ ~WellFormedTime(rule.endTime)

WellFormedRule(rule) == ~Malformed(rule)

\* the task had no time rule of its own, or has one that is well-formed
KeepsARule(task) ==
    Len(task.timeRules) = 0 \/ \E k \in DOMAIN task.timeRules : WellFormedRule(task.timeRules[k])

WithoutMalformedRules(task) ==
    [task EXCEPT !.timeRules = SelectSeq(task.timeRules, WellFormedRule)]

\* the tasks as they are when the malformed time rules are absent
WithoutMalformed(taskList) ==
    LET kept == SelectSeq(taskList, KeepsARule)
    IN  [i \in DOMAIN kept |-> WithoutMalformedRules(kept[i])]

HasDateForm(str) == Shape(str) = <<"d", "d", "d", "d", "-", "d", "d", "-", "d", "d">>

Returned == erResult # <<>> /\ "returned" \in DOMAIN erResult[1]

Threw == erResult # <<>> /\ "threw" \in DOMAIN erResult[1]

\* the options with the date as <<year, month, day>>
erParsed == [erOptions EXCEPT !.dateIso = parseIsoDateString(erOptions.dateIso)]

\* C21: a time rule whose start or end time does not parse contributes no
\* window, and the returned windows are those of the same tasks without the
\* malformed rules.
C21_MalformedRuleSkipped ==
    Returned => erResult[1].returned = buildBlockingWindows(WithoutMalformed(erTasks), erParsed)

ZoneResolves(task) == resolveTaskTimeZone(task, erOptions.timeZone) \in ZoneNames

\* C22: a task whose effective timezone cannot be resolved is skipped, and the
\* call completes with the windows of the other tasks.
C22_UnresolvableZoneSkipped ==
    (erResult # <<>> /\ HasDateForm(erOptions.dateIso)) =>
        /\ Returned
        /\ erResult[1].returned = buildBlockingWindows(SelectSeq(erTasks, ZoneResolves), erParsed)

DaysInMonth(y, m) ==
    IF m = 2 THEN (IF y % 4 = 0 /\ (y % 100 # 0 \/ y % 400 = 0) THEN 29 ELSE 28)
    ELSE IF m \in {4, 6, 9, 11} THEN 30 ELSE 31

\* the text is a calendar date in the form YYYY-MM-DD
ValidCalendarDate(str) ==
    /\ HasDateForm(str)
    /\ LET d == parseIsoDateString(str)
       IN  d[2] \in 1..12 /\ d[3] \in 1..DaysInMonth(d[1], d[2])

InvalidDateFormat == [threw |-> "Error: Invalid date format. Expected YYYY-MM-DD"]

\* C23 as stated: every dateIso that is not a valid calendar date raises the error
C23_Original ==
    (erResult # <<>> /\ ~ValidCalendarDate(erOptions.dateIso)) => erResult[1] = InvalidDateFormat

\* C23: every dateIso that does not have the form YYYY-MM-DD raises the
\* date-format error, whatever the tasks are, and no window list is returned.
C23_FormatChecked ==
    (erResult # <<>> /\ ~HasDateForm(erOptions.dateIso)) =>
        erResult[1] = InvalidDateFormat /\ ~Returned

\* a date with a one-digit month, with a task in an unknown zone in the list
C23_Witness ==
    /\ erResult = <<InvalidDateFormat>>
    /\ erOptions.dateIso = <<"2", "0", "2", "4", "-", "6", "-", "1", "0">>
    /\ erTasks = <<TaskZ, TaskA>>
    /\ ~erOptions.focusOnly

-----------------------------------------------------------------------------
(* Claims about the endpoint, checked under SpecHttp *)

\* the request carries a date that does not have the form YYYY-MM-DD
MalformedDate == hRequest.date # <<>> /\ ~HasDateForm(hRequest.date)

\* the request carries a numeric option below zero
NegativeOption ==
    \E p \in {hRequest.pre_grace_min, hRequest.post_grace_min, hRequest.duration_default_min} :
        Len(p) > 1 /\ p[1] = "-" /\ \A i \in 2..Len(p) : p[i] \in DigitSet

Answered == hResponse # <<>>

\* C24: a malformed date or a negative numeric option is answered with a
\* client error, a failed store fetch with a server error, and none of them
\* with status 200.
C24_BoundaryErrors ==
    Answered =>
        /\ (MalformedDate \/ NegativeOption) => hResponse[1].status \in 400..499
        /\ hFailed # {} => hResponse[1].status \in 500..599

-----------------------------------------------------------------------------
(* Claims about fetchHabitDashboardMonth, checked under SpecMonth *)

Resolved == mOutcome # <<>> /\ "resolved" \in DOMAIN mOutcome[1]

\* the queries that were sent to the store
Queried(store) == { k \in DOMAIN mRequests : mRequests[k] = store }

\* C25: a dashboard result exists only when the task query and the log query
\* have been fulfilled (no log query is sent for an empty list of active
\* tasks); when one of them failed the call is rejected with that error and
\* has no result; and no query is sent a second time.
C25_WaitsForBothFetches ==
    /\ Resolved =>
          /\ mTaskFetch = "fulfilled"
          /\ mLogFetch = "fulfilled" \/ (mLogFetch = "not sent" /\ Len(mActive) = 0)
    /\ (mTaskFetch = "failed" \/ mLogFetch = "failed") =>
          mOutcome = <<[rejected |-> "store unavailable"]>>
    /\ (mTaskFetch = "pending" \/ mLogFetch = "pending") => mOutcome = <<>>
    /\ Cardinality(Queried("task_defs")) <= 1 /\ Cardinality(Queried("exec_logs")) <= 1

\* the log query failed after the task query had given two active habits
C25_Witness ==
    /\ mTaskFetch = "fulfilled"
    /\ mLogFetch = "failed"
    /\ mActive = <<HabitN, HabitT>>
    /\ mRequests = <<"task_defs", "exec_logs">>
    /\ mOutcome = <<[rejected |-> "store unavailable"]>>

-----------------------------------------------------------------------------
(* Claims about the polling consumer, checked under SpecPoll and SpecPollFair *)

\* the last call of fetchWindowsFromApi was a refresh with a reason other than 'initial'
LastIsRefresh ==
    /\ uFetchLog # <<>>
    /\ uFetchLog[Len(uFetchLog)].by = "triggerBackgroundRefresh"
    /\ uFetchLog[Len(uFetchLog)].reason # "initial"

\* C26: a fetch that triggerBackgroundRefresh starts with a reason other than
\* 'initial' starts at least MIN_REFRESH_INTERVAL_MS after the fetch attempt
\* before it, whoever made that attempt and however it ended; so two such
\* fetches in a row are at least 60 s apart.
C26_MinimumInterval ==
    (Len(uFetchLog) = 2 /\ LastIsRefresh) =>
        uFetchLog[2].at - uFetchLog[1].at >= MIN_REFRESH_INTERVAL_MS

\* the outcomes of a fetch that failed: HTTP status, unparsable body,
\* connection error, timeout
Failures == {"status", "parse error", "connection failed", "timeout"}

\* a step in which getBlockingWindows reads a cache no older than the TTL
ReadsFreshCache ==
    /\ pc = "getBlockingWindows" /\ pc' # "getBlockingWindows"
    /\ uCache # <<>>
    /\ uNow - uCache.fetchedAt <= uConfig.cacheTtlMs

\* C27: a fetch of getBlockingWindows or triggerBackgroundRefresh that fails
\* leaves the stored window cache as it was; getBlockingWindows, when its
\* fetch failed and a cache is stored, returns the windows of that cache
\* although it is older than the TTL; and a cache whose age is at most the
\* TTL is returned by getBlockingWindows without a fetch of its own.
C27_LastKnownGood ==
    [][ /\ uSettled' \in Failures => uCache' = uCache
        /\ (pc = "load fetch" /\ uSettled' \in Failures /\ uCache # <<>>) =>
              /\ uNow - uCache.fetchedAt > uConfig.cacheTtlMs
              /\ uResult' = <<[windows |-> uCache.windows, source |-> "stale-cache"]>>
        /\ ReadsFreshCache =>
              /\ uResult' = <<[windows |-> uCache.windows, source |-> "cache"]>>
              /\ uLoadFetch' = "none"
              /\ \A i \in DOMAIN uFetchLog' : uFetchLog'[i].by # "getBlockingWindows"
      ]_vars

\* the fetch of getBlockingWindows has just timed out and the stale cache was returned
C27_Witness ==
    /\ uSettled = "timeout"
    /\ uLoadFetch = "failed"
    /\ uCache # <<>>
    /\ uCache = uStale
    /\ uNow - uCache.fetchedAt > uConfig.cacheTtlMs
    /\ uResult = <<[windows |-> uCache.windows, source |-> "stale-cache"]>>

\* C30: at most one fetch of triggerBackgroundRefresh is open at any time,
\* and refreshInFlight is true exactly while one is open; while
\* refreshInFlight is true no step (interval, visibility, focus, task
\* executed) starts a fetch; and whenever refreshInFlight is true it becomes
\* false again, whether the fetch succeeds or fails.
C30_SingleRefreshInFlight ==
    /\ [](Len(uRequests) <= 1 /\ (refreshInFlight <=> Len(uRequests) = 1))
    /\ [][refreshInFlight => (Len(uRequests') <= Len(uRequests) /\ uFetchLog' = uFetchLog)]_vars
    /\ (refreshInFlight ~> ~refreshInFlight)

\* a background refresh has just timed out and refreshInFlight is false again
C30_Witness ==
    /\ pc = "running"
    /\ uSettled = "timeout"
    /\ uLoadFetch \in {"none", "ok"}
    /\ uFetchLog # <<>>
    /\ uFetchLog[Len(uFetchLog)].by = "triggerBackgroundRefresh"
    /\ ~refreshInFlight
    /\ uRequests = <<>>

-----------------------------------------------------------------------------
(* Claims about the blocked time of the merged windows, checked under SpecBuild *)

\* the minutes that a window blocks
Interval(w) == w.startUtc..(w.endUtc - 1)

BlockedTime(windows) == UNION { Interval(windows[i]) : i \in DOMAIN windows }

\* candidate w lies in the merged window m, which has its policy and its reasons
Holds(m, w) ==
    /\ m.startUtc <= w.startUtc /\ w.endUtc <= m.endUtc
    /\ SamePolicy(m, w)
    /\ Elements(w.reasons) \subseteq Elements(m.reasons)

\* C28: the windows that mergeWindows returns block exactly the minutes that
\* the candidates block; every candidate lies in one returned window that has
\* its timezone, redirect target and severity and carries its reasons; and
\* there are no more returned windows than candidates.
C28_MergeKeepsBlockedTime ==
    (pc = "done" /\ Len(bWindows) > 0) =>
        /\ BlockedTime(bMerged) = BlockedTime(bWindows)
        /\ \A i \in DOMAIN bWindows : \E k \in DOMAIN bMerged : Holds(bMerged[k], bWindows[i])
        /\ Len(bMerged) <= Len(bWindows)

\* three candidates gave two windows, one of them longer than every candidate in it
C28_Witness ==
    /\ pc = "done"
    /\ Len(bWindows) = 3
    /\ Len(bMerged) = 2
    /\ \E k \in DOMAIN bMerged :
          /\ \E i \in DOMAIN bWindows : Holds(bMerged[k], bWindows[i])
          /\ \A i \in DOMAIN bWindows :
                Holds(bMerged[k], bWindows[i]) =>
                    bWindows[i].endUtc - bWindows[i].startUtc
                        < bMerged[k].endUtc - bMerged[k].startUtc

-----------------------------------------------------------------------------
(* Claims about the bounds of the streaks, checked under SpecStreak *)

\* the days at or before the reference day on which something was required and done
DoneDays ==
    { k \in DOMAIN skStats :
        /\ ~IsoLess(skRef, skStats[k].date)
        /\ skStats[k].stat.required > 0
        /\ skStats[k].stat.done }

\* C29: computeStreakStats returns 0 <= current <= longest, and longest is at
\* most the number of days at or before the reference date that have
\* required > 0 and done = true.
C29_StreakBounds ==
    pc = "streaked" =>
        /\ 0 <= skResult[1].current
        /\ skResult[1].current <= skResult[1].longest
        /\ skResult[1].longest <= Cardinality(DoneDays)

\* a current streak shorter than the longest, which is shorter than the number
\* of done days, with a done day after the reference day
C29_Witness ==
    /\ pc = "streaked"
    /\ skResult[1].current = 1
    /\ skResult[1].longest = 2
    /\ Cardinality(DoneDays) = 3
    /\ \E k \in DOMAIN skStats :
          IsoLess(skRef, skStats[k].date) /\ skStats[k].stat.required > 0 /\ skStats[k].stat.done

====
